---- MODULE Spec2Model ----
(***************************************************************************)
(* Model of the backup / restore / catalog handlers of the admin settings  *)
(* router (src/unnamed/part_002): POST /backup, POST /restore and          *)
(* GET /backups, over one live SQLite store (billing.db with its optional  *)
(* -wal / -shm siblings) and the backup directory data/backup.             *)
(*                                                                         *)
(* File names are sequences of characters, so that endsWith and the        *)
(* suffix-stripping regular expressions are computed and not assumed.      *)
(* A database image maps the names of the tables it holds to their column  *)
(* list and row list; a row maps column names to values.  All values are   *)
(* strings, NULL being the string "NULL".                                  *)
(***************************************************************************)
EXTENDS Integers, Sequences, FiniteSets, TLC

VARIABLES
    live,      \* the live store: billing.db, billing.db-wal, billing.db-shm
    files,     \* the backup directory: file name -> [content, size, birth]
    now,       \* the clock new Date() reads (one unit = one millisecond tick)
    rst,       \* the state of each POST /restore request
    bk,        \* the state of the POST /backup request
    cat,       \* the last response of GET /backups
    events,    \* number of environment events so far: requests, writes of
               \* other handlers to the store, I/O and SQLite errors
    nreq,      \* number of requests started
    clean,     \* backup base names taken since the last write to the store
    indexes,   \* the indexes of the live store: index name -> indexed table
    mig,       \* the state of the migration script
    cfg        \* settings.json and the requests that save settings

vars == <<live, files, now, rst, bk, cat, events, nreq, clean, indexes, mig, cfg>>

(***************************************************************************)
(* Bounds of the model.                                                    *)
(***************************************************************************)
MaxEvents == 3
MaxFiles == 4

----------------------------------------------------------------------------
(***************************************************************************)
(* File names.                                                             *)
(***************************************************************************)
DbSuffix == <<".", "d", "b">>
WalSuffix == <<".", "d", "b", "-", "w", "a", "l">>
ShmSuffix == <<".", "d", "b", "-", "s", "h", "m">>
TxtSuffix == <<".", "t", "x", "t">>

\* String.prototype.endsWith
EndsWith(f, suf) ==
    /\ Len(f) >= Len(suf)
    /\ SubSeq(f, Len(f) - Len(suf) + 1, Len(f)) = suf

\* file.replace(/<suf>$/, ''): strips the suffix when the name ends with it
StripSuffix(f, suf) ==
    IF EndsWith(f, suf) THEN SubSeq(f, 1, Len(f) - Len(suf)) ELSE f

\* the timestamp new Date().toISOString().replace(/[:.]/g, '-') at clock t
Digits == <<"0", "1", "2", "3", "4", "5", "6", "7", "8", "9">>
Stamp(t) == <<Digits[t + 1]>>

BackupBase(t) == <<"billing_backup_">> \o Stamp(t)
PreRestoreName(t) == <<"pre_restore_">> \o Stamp(t) \o DbSuffix
TempDbName(t) == <<"temp_restore_">> \o Stamp(t) \o DbSuffix

\* the sequences that enumerate the finite set S once each
RECURSIVE Orders(_)
Orders(S) ==
    IF S = {} THEN {<<>>}
    ELSE UNION {{<<x>> \o o : o \in Orders(S \ {x})} : x \in S}

----------------------------------------------------------------------------
(***************************************************************************)
(* GET /backups: the catalog of the backup directory.                      *)
(***************************************************************************)
NoTime == -1

\* the classification of one directory entry: its base name and file type,
\* NoBase / "none" standing for the null the code starts from
NoBase == <<"null">>
FileType(f) ==
    IF EndsWith(f, DbSuffix) THEN "db"
    ELSE IF EndsWith(f, WalSuffix) THEN "wal"
    ELSE IF EndsWith(f, ShmSuffix) THEN "shm"
    ELSE "none"
\* a base name that loses the three characters of ".db" whatever the suffix
BaseNameDbOnly(f) ==
    IF FileType(f) = "none" THEN NoBase
    ELSE SubSeq(f, 1, Len(f) - Len(DbSuffix))

BaseName(f) ==
    IF EndsWith(f, DbSuffix) THEN StripSuffix(f, DbSuffix)
    ELSE IF EndsWith(f, WalSuffix) THEN StripSuffix(f, WalSuffix)
    ELSE IF EndsWith(f, ShmSuffix) THEN StripSuffix(f, ShmSuffix)
    ELSE NoBase

\* a loop that keeps the files named billing_backup_ only
SkippedUnlessBackup(f) == FileType(f) = "none" \/ Head(f) # "billing_backup_"

\* if (!baseName || !fileType) continue: null and the empty string are falsy
Skipped(f) == BaseName(f) = NoBase \/ BaseName(f) = <<>> \/ FileType(f) = "none"

\* index of the group of base name b in the group list, 0 when there is none
GroupIndex(groups, b) ==
    IF \E i \in DOMAIN groups : groups[i].base_name = b
    THEN CHOOSE i \in DOMAIN groups : groups[i].base_name = b
    ELSE 0

\* one iteration of the loop over allFiles
AddFile(groups, f, stats) ==
    IF Skipped(f) THEN groups
    ELSE LET b == BaseName(f)
             g0 == IF GroupIndex(groups, b) = 0
                   THEN Append(groups, [base_name |-> b, files |-> <<>>,
                                        total_size |-> 0, created |-> NoTime])
                   ELSE groups
             i == GroupIndex(g0, b)
             g == g0[i]
         IN [g0 EXCEPT ![i] =
                [base_name |-> b,
                 files |-> Append(g.files, [filename |-> f, size |-> stats.size,
                                            type |-> FileType(f)]),
                 total_size |-> g.total_size + stats.size,
                 created |-> IF g.created = NoTime \/ stats.birth < g.created
                             THEN stats.birth ELSE g.created]]

RECURSIVE GroupFiles(_, _, _)
GroupFiles(allFiles, dir, groups) ==
    IF allFiles = <<>> THEN groups
    ELSE GroupFiles(Tail(allFiles), dir,
                    AddFile(groups, Head(allFiles), dir[Head(allFiles)]))

\* the .map callback: one catalog entry per group
\* an entry named after the first file of its group, whatever its type
CatalogEntryFirstFile(group) ==
    [filename |-> group.files[1].filename,
     base_name |-> group.base_name,
     size |-> group.total_size,
     created |-> group.created,
     file_count |-> Len(group.files),
     files |-> group.files]

CatalogEntry(group) ==
    LET dbs == {i \in DOMAIN group.files : group.files[i].type = "db"}
        first == CHOOSE i \in dbs : \A j \in dbs : i <= j
    IN [filename |-> IF dbs # {} THEN group.files[first].filename
                     ELSE group.base_name \o DbSuffix,
        base_name |-> group.base_name,
        size |-> group.total_size,
        created |-> group.created,
        file_count |-> Len(group.files),
        files |-> group.files]

\* the comparator (a, b) => new Date(b.created) - new Date(a.created)
\* the comparator with its operands exchanged: oldest first
CompareOldestFirst(a, b) == a.created - b.created

CompareCreated(a, b) == b.created - a.created

\* Array.prototype.sort is stable: an entry is placed after every entry the
\* comparator does not order after it
RECURSIVE InsertSorted(_, _)
InsertSorted(sorted, e) ==
    IF sorted = <<>> THEN <<e>>
    ELSE IF CompareCreated(Head(sorted), e) <= 0
         THEN <<Head(sorted)>> \o InsertSorted(Tail(sorted), e)
         ELSE <<e>> \o sorted

RECURSIVE SortEntries(_, _)
SortEntries(entries, sorted) ==
    IF entries = <<>> THEN sorted
    ELSE SortEntries(Tail(entries), InsertSorted(sorted, Head(entries)))

Catalog(allFiles, dir) ==
    LET groups == GroupFiles(allFiles, dir, <<>>)
        kept == SelectSeq(groups, LAMBDA g : Len(g.files) > 0)
        entries == [i \in DOMAIN kept |-> CatalogEntry(kept[i])]
    IN SortEntries(entries, <<>>)

----------------------------------------------------------------------------
(***************************************************************************)
(* Database images.                                                        *)
(***************************************************************************)
NULL == "NULL"
NoCount == -1

\* SQLite and String.prototype.toLowerCase on the column names of the model
ToLower(n) ==
    CASE n = "ID" -> "id"
      [] n = "Name" -> "name"
      [] n = "Status" -> "status"
      [] OTHER -> n

EmptyImage == [t \in {} |-> 0]
NoWal == [present |-> FALSE, img |-> EmptyImage]

\* what a connection reads: the write-ahead log, when there is one, holds
\* the latest committed state
View(main, wal) == IF wal.present THEN wal.img ELSE main
LiveView == View(live.main, live.wal)

\* a committed write: to the log in WAL mode, to the main file otherwise
Write(db, img) ==
    IF db.wal.present THEN [db EXCEPT !.wal.img = img]
    ELSE [db EXCEPT !.main = img]

\* PRAGMA wal_checkpoint(FULL): folds the log into the main file
Checkpoint(db) ==
    IF db.wal.present THEN [db EXCEPT !.main = db.wal.img] ELSE db

RECURSIVE SumRows(_, _)
SumRows(img, ts) ==
    IF ts = {} THEN 0
    ELSE LET t == CHOOSE x \in ts : TRUE
         IN Len(img[t].rows) + SumRows(img, ts \ {t})

\* the byte size of a file, as a function of what it holds
SizeOf(content) == 1 + SumRows(content.img, DOMAIN content.img)

DbContent(img) == [kind |-> "db", img |-> img]
WalContent(img) == [kind |-> "wal", img |-> img]
ShmContent == [kind |-> "shm", img |-> EmptyImage]

\* fs.copyFileSync(src, dst) at clock t: an existing destination is
\* overwritten in place and keeps its birth time
CopyFile(dir, content, dst, t) ==
    [n \in DOMAIN dir \cup {dst} |->
        IF n = dst
        THEN [content |-> content, size |-> SizeOf(content),
              birth |-> IF dst \in DOMAIN dir THEN dir[dst].birth ELSE t]
        ELSE dir[n]]

\* fs.unlinkSync
Unlink(dir, name) == [n \in DOMAIN dir \ {name} |-> dir[n]]

\* the database a connection opened on file name db of the directory reads
FileView(dir, db) ==
    IF db \notin DOMAIN dir THEN EmptyImage
    ELSE IF (db \o <<"-", "w", "a", "l">>) \in DOMAIN dir
         THEN dir[db \o <<"-", "w", "a", "l">>].content.img
         ELSE dir[db].content.img

ColumnNames(cols) == {cols[i].name : i \in DOMAIN cols}

\* INSERT OR REPLACE INTO table (names) VALUES (values): column names match
\* without regard to case, a column that is not named takes its default, and
\* every row that holds the new row's value in a unique column is replaced
InsertOrReplace(table, names, values) ==
    LET ValueFor(c) ==
            IF \E i \in DOMAIN names : ToLower(names[i]) = ToLower(c.name)
            THEN values[CHOOSE i \in DOMAIN names : ToLower(names[i]) = ToLower(c.name)]
            ELSE c.dflt
        colOf(n) == table.cols[CHOOSE i \in DOMAIN table.cols : table.cols[i].name = n]
        newRow == [n \in ColumnNames(table.cols) |-> ValueFor(colOf(n))]
        Conflicts(row) ==
            \E i \in DOMAIN table.cols :
                /\ table.cols[i].unique
                /\ newRow[table.cols[i].name] # NULL
                /\ row[table.cols[i].name] = newRow[table.cols[i].name]
        Kept(row) == ~Conflicts(row)
    IN [table EXCEPT !.rows = Append(SelectSeq(table.rows, Kept), newRow)]

----------------------------------------------------------------------------
(***************************************************************************)
(* POST /restore.  One action per awaited database call: the action is the *)
(* call's callback followed by the synchronous code up to the next await.  *)
(***************************************************************************)
\* the requests that may be in flight at once
Reqs == {1, 2}

tablesToRestore ==
    <<"packages", "customers", "odps", "cable_routes", "network_segments">>
TableSet == {tablesToRestore[i] : i \in DOMAIN tablesToRestore}

MsgFileNotFound == "File backup tidak ditemukan"
MsgRestoreError == "Error restoring database: "
MsgRestoreDone == "Database berhasil di-restore"
MsgTableNotFound == "Tabel tidak ditemukan di backup"
MsgNoData == "Tidak ada data untuk di-restore"
MsgNoCompat == "Tidak ada kolom yang kompatibel antara backup dan database aktif"
MsgRestored == "Berhasil restore"
ErrIO == "EIO"
ErrSqlite == "SQLITE_IOERR"
ErrNoTable == "SQLITE_ERROR: no such table"

NoResult == [recorded |-> FALSE, success |-> FALSE, count |-> NoCount, message |-> ""]
NoResp == [status |-> 0, success |-> FALSE, message |-> "", error |-> "",
           total_restored |-> 0]

NoStore == [main |-> EmptyImage, wal |-> NoWal, shm |-> FALSE]

\* a request that has not started.  The fields from existed on record the
\* history of the run and are read by no action: whether the requested file
\* was there, whether the backup set was taken since the last write to the
\* store, the store when the request began and when it was answered, what
\* the scratch copy held when the loop began, the number of DELETE and
\* INSERT statements issued, the fate of the pre-restore snapshot, and per
\* table the statements that answered without error and the number of rows
\* whose INSERT failed, the calls that raised an error, and the tables whose
\* DELETE completed while another request was at work on the same table
IdleRestore ==
    [pc |-> "idle", file |-> <<>>, ts |-> 0, idx |-> 0, rowIdx |-> 0,
     backupData |-> <<>>, backupColumns |-> <<>>, commonColumns |-> <<>>,
     insertedCount |-> 0, skippedCount |-> 0,
     restoreResults |-> [t \in TableSet |-> NoResult], resp |-> NoResp,
     existed |-> FALSE, roundtrip |-> FALSE,
     before |-> NoStore, after |-> NoStore, source |-> EmptyImage,
     issued |-> 0, snapshot |-> "none",
     ran |-> [t \in TableSet |-> {}], skipped |-> [t \in TableSet |-> 0],
     faults |-> {}, shared |-> {}]

\* the call named call has raised an error
Fault(s, call) == [s EXCEPT !.faults = @ \cup {call}]

TempDbPath(s) == TempDbName(s.ts)
TempWalPath(s) == TempDbName(s.ts) \o <<"-", "w", "a", "l">>
TempShmPath(s) == TempDbName(s.ts) \o <<"-", "s", "h", "m">>

\* what backupDb, the connection opened on the scratch copy, reads
ScratchView(s) == FileView(files, TempDbPath(s))

\* res.status(code).json({success: false, ...})
Failure(s, code, message, error) ==
    [s EXCEPT !.pc = "done", !.after = live,
              !.resp = [status |-> code, success |-> FALSE, message |-> message,
                        error |-> error, total_restored |-> 0]]

\* Object.values(restoreResults).filter(r => r.success)
\*     .reduce((sum, r) => sum + (r.count || 0), 0)
RECURSIVE SumCounts(_, _)
SumCounts(results, ts) ==
    IF ts = {} THEN 0
    ELSE LET t == CHOOSE x \in ts : TRUE
             c == IF results[t].recorded /\ results[t].success /\ results[t].count # NoCount
                  THEN results[t].count ELSE 0
         IN c + SumCounts(results, ts \ {t})
\* a total that counts the successful tables, not their rows
TotalRestoredTables(results) ==
    Cardinality({t \in TableSet : results[t].recorded /\ results[t].success})

TotalRestored(results) == SumCounts(results, TableSet)

\* the cleanup of the scratch files: the three guarded unlinkSync calls of
\* one try block, of which the call on uf (if any) throws
Cleanup(dir, s, uf) ==
    LET d1 == IF TempDbPath(s) \in DOMAIN dir /\ uf # "db"
              THEN Unlink(dir, TempDbPath(s)) ELSE dir
        d2 == IF uf = "db" THEN d1
              ELSE IF TempWalPath(s) \in DOMAIN d1 /\ uf # "wal"
                   THEN Unlink(d1, TempWalPath(s)) ELSE d1
        d3 == IF uf \in {"db", "wal"} THEN d2
              ELSE IF TempShmPath(s) \in DOMAIN d2 /\ uf # "shm"
                   THEN Unlink(d2, TempShmPath(s)) ELSE d2
    IN d3

\* after the loop: close both connections, delete the scratch files, respond
Finish(r, s, f, lv) ==
    \E uf \in {"none", "db", "wal", "shm"} :
        /\ uf = "db" => TempDbPath(s) \in DOMAIN files
        /\ uf = "wal" => TempWalPath(s) \in DOMAIN files
        /\ uf = "shm" => TempShmPath(s) \in DOMAIN files
        /\ uf # "none" => events + f < MaxEvents
        /\ files' = Cleanup(files, s, uf)
        /\ events' = events + f + (IF uf = "none" THEN 0 ELSE 1)
        /\ rst' = [rst EXCEPT ![r] =
                     [s EXCEPT !.pc = "done", !.after = lv,
                               !.faults = IF uf = "none" THEN @ ELSE @ \cup {"unlink"},
                               !.resp = [status |-> 200, success |-> TRUE,
                                         message |-> MsgRestoreDone, error |-> "",
                                         total_restored |-> TotalRestored(s.restoreResults)]]]

\* the end of one iteration of the table loop: the result is recorded and
\* the loop goes on to the next table
\* a loop that steps over the table after the one it has recorded
RecordAndSkip(s, res) ==
    [s EXCEPT !.restoreResults[tablesToRestore[s.idx]] = res,
              !.idx = @ + 2, !.pc = "exists", !.rowIdx = 0,
              !.backupData = <<>>, !.backupColumns = <<>>, !.commonColumns = <<>>,
              !.insertedCount = 0, !.skippedCount = 0]

Record(s, res) ==
    [s EXCEPT !.restoreResults[tablesToRestore[s.idx]] = res,
              !.idx = @ + 1, !.pc = "exists", !.rowIdx = 0,
              !.backupData = <<>>, !.backupColumns = <<>>, !.commonColumns = <<>>,
              !.insertedCount = 0, !.skippedCount = 0]

\* statement stmt of the current table has answered without error
Ran(s, stmt) == [s EXCEPT !.ran[tablesToRestore[s.idx]] = @ \cup {stmt}]

\* catch (tableError)
\* a table-level error that is let through to the outer catch
TableErrorFatal(s, message) == Failure(s, 500, MsgRestoreError, message)

TableError(s, message) ==
    Record(s, [recorded |-> TRUE, success |-> FALSE, count |-> NoCount,
               message |-> message])

\* the request goes on from state s, the step having raised f errors and
\* left the store as lv
Continue(r, s, f, lv) ==
    /\ live' = lv
    /\ IF s.pc = "exists" /\ s.idx > Len(tablesToRestore)
       THEN Finish(r, s, f, lv)
       ELSE /\ rst' = [rst EXCEPT ![r] = s]
            /\ files' = files
            /\ events' = events + f

\* the request body's backup_file: a backup set of the directory, a name
\* that is not there, or nothing
MissingFile == <<"billing_backup_", "9">> \o DbSuffix
RequestFiles ==
    {f \in DOMAIN files : Head(f) = "billing_backup_" /\ EndsWith(f, DbSuffix)}
        \cup {MissingFile, <<>>}

\* lines 603-619: !backupFilename, !fs.existsSync(backupPath)
\* a validation that tests the name and not the file
MissingNameOnly(fname, dir) == fname = <<>>

BackupFileMissing(fname, dir) == fname = <<>> \/ fname \notin DOMAIN dir

\* lines 621-624: the live store's main file is copied to pre_restore_<ts>.db
\* a restore that takes no snapshot
SnapshotSkipped(dir, t) == dir

Snapshot(dir, t) == CopyFile(dir, DbContent(live.main), PreRestoreName(t), t)

\* lines 601-651: validation, the pre-restore snapshot, the scratch copy.
\* flt names the copyFileSync call that throws, if any (the copy of a source
\* that does not exist always throws)
RestoreStart(r, fname) ==
    /\ rst[r].pc \in {"idle", "done"}
    /\ events < MaxEvents
    /\ nreq' = nreq + 1
    /\ LET s0 == [IdleRestore EXCEPT !.file = fname, !.ts = now, !.before = live,
                      !.existed = (fname \in DOMAIN files),
                      !.roundtrip = (StripSuffix(fname, DbSuffix) \in clean)]
           backupBaseName == StripSuffix(fname, DbSuffix)
           backupWalPath == backupBaseName \o WalSuffix
           backupShmPath == backupBaseName \o ShmSuffix
           d1 == Snapshot(files, now)
           d2 == IF fname \in DOMAIN d1
                 THEN CopyFile(d1, d1[fname].content, TempDbPath(s0), now)
                 ELSE d1
           hasWal == backupWalPath \in DOMAIN d2
           d3 == IF hasWal
                 THEN CopyFile(d2, d2[backupWalPath].content, TempWalPath(s0), now)
                 ELSE d2
           hasShm == backupShmPath \in DOMAIN d3
           d4 == IF hasShm
                 THEN CopyFile(d3, d3[backupShmPath].content, TempShmPath(s0), now)
                 ELSE d3
           s1 == [s0 EXCEPT !.snapshot = IF PreRestoreName(now) \in DOMAIN d1
                                         THEN "written" ELSE "none"]
       IN IF BackupFileMissing(fname, files)
          THEN /\ rst' = [rst EXCEPT ![r] = Failure(s0, 400, MsgFileNotFound, "")]
               /\ events' = events + 1
               /\ files' = files
          ELSE \E flt \in {"none", "snapshot", "copydb", "copywal", "copyshm"} :
                   /\ flt = "copywal" => hasWal
                   /\ flt = "copyshm" => hasShm
                   /\ flt \in {"none", "copywal", "copyshm"} => fname \in DOMAIN d1
                   /\ LET injected == IF flt = "none" \/ (flt = "copydb" /\ fname \notin DOMAIN d1)
                                      THEN 0 ELSE 1
                      IN /\ events + injected < MaxEvents
                         /\ events' = events + 1 + injected
                   /\ files' = CASE flt = "snapshot" -> files
                                 [] flt = "copydb" -> d1
                                 [] flt = "copywal" -> d2
                                 [] flt = "copyshm" -> d3
                                 [] OTHER -> d4
                   /\ rst' = [rst EXCEPT ![r] =
                        CASE flt = "snapshot" ->
                                 Failure(Fault([s0 EXCEPT !.snapshot = "failed"], flt),
                                         500, MsgRestoreError, ErrIO)
                          [] flt \in {"copydb", "copywal", "copyshm"} ->
                                 Failure(Fault(s1, flt), 500, MsgRestoreError, ErrIO)
                          [] OTHER ->
                                 [s1 EXCEPT !.pc = IF TempWalPath(s0) \in DOMAIN d4
                                                  THEN "checkpoint" ELSE "close"]]
    /\ UNCHANGED <<live, now, bk, cat, clean, indexes, mig, cfg>>

\* lines 655-668: PRAGMA wal_checkpoint(FULL) on the scratch copy; its
\* failure is logged and the restore goes on
RestoreCheckpoint(r) ==
    /\ rst[r].pc = "checkpoint"
    /\ LET s == rst[r]
           db == TempDbPath(s)
           wal == TempWalPath(s)
       IN \/ /\ events < MaxEvents
             /\ events' = events + 1
             /\ files' = files
             /\ rst' = [rst EXCEPT ![r] = [Fault(s, "checkpoint") EXCEPT !.pc = "close"]]
          \/ /\ events' = events
             /\ files' = IF db \in DOMAIN files /\ wal \in DOMAIN files
                         THEN [files EXCEPT
                                 ![db].content = DbContent(files[wal].content.img),
                                 ![db].size = SizeOf(DbContent(files[wal].content.img))]
                         ELSE files
             /\ rst' = [rst EXCEPT ![r].pc = "close"]
    /\ UNCHANGED <<live, now, bk, cat, nreq, clean, indexes, mig, cfg>>

\* lines 671-691 and 875-892: tempDb.close(); an error here is the
\* top-level failure, success opens backupDb and activeDb and enters the loop
RestoreClose(r) ==
    /\ rst[r].pc = "close"
    /\ LET s == rst[r]
       IN \/ /\ events < MaxEvents
             /\ events' = events + 1
             /\ rst' = [rst EXCEPT ![r] =
                          Failure(Fault(s, "close"), 500, MsgRestoreError, ErrSqlite)]
          \/ /\ events' = events
             /\ rst' = [rst EXCEPT ![r] =
                          [s EXCEPT !.pc = "exists", !.idx = 1,
                                    !.source = ScratchView(s)]]
    /\ UNCHANGED <<live, files, now, bk, cat, nreq, clean, indexes, mig, cfg>>

\* lines 697-706: resolve(!!row) of the sqlite_master query
\* a loop that takes every table of the list to be in the backup
TableAssumed(view, tableName) == TRUE

TableExists(view, tableName) == tableName \in DOMAIN view

\* lines 697-720: the sqlite_master query answers; the DELETE is issued
RestoreExists(r) ==
    /\ rst[r].pc = "exists"
    /\ LET s == rst[r]
           tableName == tablesToRestore[s.idx]
       IN \/ /\ events < MaxEvents
             /\ Continue(r, TableError(Fault(s, "exists"), ErrSqlite), 1, live)
          \/ /\ ~TableExists(ScratchView(s), tableName)
             /\ Continue(r, Record(Ran(s, "exists"),
                                   [recorded |-> TRUE, success |-> FALSE,
                                    count |-> NoCount, message |-> MsgTableNotFound]),
                         0, live)
          \/ /\ TableExists(ScratchView(s), tableName)
             /\ Continue(r, [Ran(s, "exists") EXCEPT !.pc = "delete", !.issued = @ + 1],
                         0, live)
    /\ UNCHANGED <<now, bk, cat, nreq, clean, indexes, mig, cfg>>

\* DELETE FROM <table> (lines 715-720)
\* a DELETE that removes no row
DeleteNothing(img, tableName) == img

\* a DROP TABLE in the place of the DELETE
DropTable(img, tableName) == [t \in DOMAIN img \ {tableName} |-> img[t]]

\* a DELETE that removes the first row only
DeleteFirstRow(img, tableName) ==
    [img EXCEPT ![tableName].rows = IF @ = <<>> THEN @ ELSE Tail(@)]

DeleteFrom(img, tableName) == [img EXCEPT ![tableName].rows = <<>>]

\* another request is between the DELETE of the table and the table's result
AtWorkOn(r, tableName) ==
    \E q \in Reqs \ {r} :
        /\ rst[q].pc \in {"select", "backupColumns", "activeColumns", "insert"}
        /\ tablesToRestore[rst[q].idx] = tableName

\* lines 715-728: the DELETE on the live store completes; the SELECT * on
\* the scratch copy is issued
RestoreDelete(r) ==
    /\ rst[r].pc = "delete"
    /\ LET s == rst[r]
           tableName == tablesToRestore[s.idx]
       IN \/ /\ events < MaxEvents
             /\ Continue(r, TableError(Fault(s, "delete"), ErrSqlite), 1, live)
             /\ clean' = clean
          \/ /\ tableName \notin DOMAIN LiveView
             /\ Continue(r, TableError(s, ErrNoTable), 0, live)
             /\ clean' = clean
          \/ /\ tableName \in DOMAIN LiveView
             /\ Continue(r, [Ran(s, "delete") EXCEPT
                                !.pc = "select",
                                !.shared = IF AtWorkOn(r, tableName)
                                           THEN @ \cup {tableName} ELSE @], 0,
                         Write(live, DeleteFrom(LiveView, tableName)))
             /\ clean' = {}
    /\ UNCHANGED <<now, bk, cat, nreq, indexes, mig, cfg>>

\* lines 730-733: the result of a table whose backup holds no row
\* a result that reports the empty table as a failure
NoDataFailed ==
    [recorded |-> TRUE, success |-> FALSE, count |-> NoCount, message |-> MsgNoData]

NoDataResult ==
    [recorded |-> TRUE, success |-> TRUE, count |-> 0, message |-> MsgNoData]

\* lines 723-741: the rows of the backup table arrive
RestoreSelect(r) ==
    /\ rst[r].pc = "select"
    /\ LET s == rst[r]
           tableName == tablesToRestore[s.idx]
           view == ScratchView(s)
           rows == IF tableName \in DOMAIN view THEN view[tableName].rows ELSE <<>>
       IN \/ /\ events < MaxEvents
             /\ Continue(r, TableError(Fault(s, "select"), ErrSqlite), 1, live)
          \/ /\ Len(rows) = 0
             /\ Continue(r, Record(Ran(s, "select"), NoDataResult), 0, live)
          \/ /\ Len(rows) > 0
             /\ Continue(r, [Ran(s, "select") EXCEPT !.pc = "backupColumns",
                                                     !.backupData = rows], 0, live)
    /\ UNCHANGED <<now, bk, cat, nreq, clean, indexes, mig, cfg>>

\* lines 736-749: PRAGMA table_info on the scratch copy answers
RestoreBackupColumns(r) ==
    /\ rst[r].pc = "backupColumns"
    /\ LET s == rst[r]
           tableName == tablesToRestore[s.idx]
           view == ScratchView(s)
           cols == IF tableName \in DOMAIN view THEN view[tableName].cols ELSE <<>>
       IN \/ /\ events < MaxEvents
             /\ Continue(r, TableError(Fault(s, "backupColumns"), ErrSqlite), 1, live)
          \/ Continue(r, [Ran(s, "backupColumns") EXCEPT !.pc = "activeColumns",
                                                         !.backupColumns = cols],
                      0, live)
    /\ UNCHANGED <<now, bk, cat, nreq, clean, indexes, mig, cfg>>

\* lines 751-757: the columns of the backup table whose lower-cased name is
\* the lower-cased name of a column of the live table
CommonColumns(backupColumns, activeColumns) ==
    LET activeColumnNames == {ToLower(activeColumns[i].name) : i \in DOMAIN activeColumns}
        Has(col) == ToLower(col.name) \in activeColumnNames
    IN SelectSeq(backupColumns, Has)

\* lines 744-807: PRAGMA table_info on the live store answers; the column
\* intersection is computed and the first INSERT is issued
RestoreActiveColumns(r) ==
    /\ rst[r].pc = "activeColumns"
    /\ LET s == rst[r]
           tableName == tablesToRestore[s.idx]
           activeColumns == IF tableName \in DOMAIN LiveView
                            THEN LiveView[tableName].cols ELSE <<>>
           commonColumns == CommonColumns(s.backupColumns, activeColumns)
       IN \/ /\ events < MaxEvents
             /\ Continue(r, TableError(Fault(s, "activeColumns"), ErrSqlite), 1, live)
          \/ /\ Len(commonColumns) = 0
             /\ Continue(r, Record(Ran(s, "activeColumns"),
                                   [recorded |-> TRUE, success |-> FALSE,
                                    count |-> 0, message |-> MsgNoCompat]), 0, live)
          \/ /\ Len(commonColumns) > 0
             /\ Continue(r, [Ran(s, "activeColumns") EXCEPT
                                !.pc = "insert", !.commonColumns = commonColumns,
                                !.rowIdx = 1, !.insertedCount = 0,
                                !.skippedCount = 0, !.issued = @ + 1], 0, live)
    /\ UNCHANGED <<now, bk, cat, nreq, clean, indexes, mig, cfg>>

\* lines 787-793: the values bound to the statement, null for a value that
\* is null or undefined in the backup row
\* a lookup of the backup's value under the lower-cased column name
RowValuesLowerCased(row, commonColumns) ==
    [i \in DOMAIN commonColumns |->
        IF ToLower(commonColumns[i].name) \in DOMAIN row
        THEN row[ToLower(commonColumns[i].name)]
        ELSE NULL]

RowValues(row, commonColumns) ==
    [i \in DOMAIN commonColumns |->
        IF commonColumns[i].name \in DOMAIN row THEN row[commonColumns[i].name]
        ELSE NULL]

\* after the callback of the INSERT of row rowIdx: the next row, or the
\* table's result (lines 815-825)
\* a result that counts every row of the backup, inserted or not
AfterInsertCountsAll(s) ==
    IF s.rowIdx < Len(s.backupData)
    THEN [s EXCEPT !.rowIdx = @ + 1, !.issued = @ + 1]
    ELSE Record(s, [recorded |-> TRUE, success |-> TRUE, count |-> Len(s.backupData),
                    message |-> MsgRestored])

\* a loop over the rows that ends at the first insert that fails
AfterInsertStopsAtFailure(s) ==
    IF s.rowIdx < Len(s.backupData) /\ s.skippedCount = 0
    THEN [s EXCEPT !.rowIdx = @ + 1, !.issued = @ + 1]
    ELSE Record(s, [recorded |-> TRUE, success |-> TRUE, count |-> s.insertedCount,
                    message |-> MsgRestored])

\* a result that reports a table none of whose rows was inserted as failed
AfterInsertFailsWhenNoneInserted(s) ==
    IF s.rowIdx < Len(s.backupData)
    THEN [s EXCEPT !.rowIdx = @ + 1, !.issued = @ + 1]
    ELSE Record(s, [recorded |-> TRUE, success |-> s.insertedCount > 0,
                    count |-> s.insertedCount, message |-> MsgRestored])

AfterInsert(s) ==
    IF s.rowIdx < Len(s.backupData)
    THEN [s EXCEPT !.rowIdx = @ + 1, !.issued = @ + 1]
    ELSE Record(s, [recorded |-> TRUE, success |-> TRUE, count |-> s.insertedCount,
                    message |-> MsgRestored])

\* catch (insertError): skippedCount++
\* a failed insert that is counted as inserted too
InsertFailedCounted(s) ==
    [s EXCEPT !.skippedCount = @ + 1, !.skipped[tablesToRestore[s.idx]] = @ + 1,
              !.insertedCount = @ + 1, !.faults = @ \cup {"insert"}]

InsertFailed(s) ==
    [s EXCEPT !.skippedCount = @ + 1, !.skipped[tablesToRestore[s.idx]] = @ + 1,
              !.faults = @ \cup {"insert"}]

\* lines 785-813: the INSERT OR REPLACE of one backup row completes
RestoreInsert(r) ==
    /\ rst[r].pc = "insert"
    /\ LET s == rst[r]
           tableName == tablesToRestore[s.idx]
           row == s.backupData[s.rowIdx]
           columnNames == [i \in DOMAIN s.commonColumns |-> s.commonColumns[i].name]
           values == RowValues(row, s.commonColumns)
       IN \/ /\ events < MaxEvents
             /\ Continue(r, AfterInsert(InsertFailed(s)), 1, live)
             /\ clean' = clean
          \/ /\ Continue(r, AfterInsert([s EXCEPT !.insertedCount = @ + 1]), 0,
                         Write(live, [LiveView EXCEPT ![tableName] =
                                        InsertOrReplace(@, columnNames, values)]))
             /\ clean' = {}
    /\ UNCHANGED <<now, bk, cat, nreq, indexes, mig, cfg>>

----------------------------------------------------------------------------
(***************************************************************************)
(* POST /backup.                                                           *)
(***************************************************************************)
MsgBackupDone == "Database backup berhasil dibuat"
MsgBackupError == "Error creating backup: "

NoBackupResp ==
    [status |-> 0, success |-> FALSE, message |-> "", error |-> "",
     backup_base |-> <<>>, backup_files |-> <<>>, total_size |-> 0]
\* faults records the calls of the request that raised an error; no action
\* reads it
IdleBackup == [pc |-> "idle", ts |-> 0, resp |-> NoBackupResp, faults |-> {}]

BackupFailure(b, error) ==
    [b EXCEPT !.pc = "done",
              !.resp = [NoBackupResp EXCEPT !.status = 500, !.message = MsgBackupError,
                                            !.error = error]]

\* lines 490-515: the names of the backup set are fixed, the connection is
\* opened and the checkpoint is issued
BackupStart ==
    /\ bk.pc \in {"idle", "done"}
    /\ events < MaxEvents
    /\ events' = events + 1
    /\ nreq' = nreq + 1
    /\ bk' = [IdleBackup EXCEPT !.pc = "checkpoint", !.ts = now]
    /\ UNCHANGED <<live, files, now, rst, cat, clean, indexes, mig, cfg>>

\* lines 514-532: PRAGMA wal_checkpoint(FULL) on the live store; its
\* failure is logged and the backup goes on
\* a checkpoint whose error is passed to reject
BackupCheckpointFatal ==
    /\ bk.pc = "checkpoint"
    /\ \/ /\ events < MaxEvents
          /\ events' = events + 1
          /\ live' = live
          /\ bk' = BackupFailure(Fault(bk, "checkpoint"), ErrSqlite)
       \/ /\ events' = events
          /\ live' = Checkpoint(live)
          /\ bk' = [bk EXCEPT !.pc = "close"]
    /\ UNCHANGED <<files, now, rst, cat, nreq, clean, indexes, mig, cfg>>

BackupCheckpoint ==
    /\ bk.pc = "checkpoint"
    /\ \/ /\ events < MaxEvents
          /\ events' = events + 1
          /\ live' = live
          /\ bk' = [bk EXCEPT !.pc = "close", !.faults = @ \cup {"checkpoint"}]
       \/ /\ events' = events
          /\ live' = Checkpoint(live)
          /\ bk' = [bk EXCEPT !.pc = "close"]
    /\ UNCHANGED <<files, now, rst, cat, nreq, clean, indexes, mig, cfg>>

\* lines 552-559: the size of the .db file, plus that of each side file
\* that exists under the backup's name
\* a total that leaves the side files out
TotalSizeDbOnly(dir, backupBaseName) == dir[backupBaseName \o DbSuffix].size

TotalSize(dir, backupBaseName) ==
    dir[backupBaseName \o DbSuffix].size
    + (IF backupBaseName \o WalSuffix \in DOMAIN dir
       THEN dir[backupBaseName \o WalSuffix].size ELSE 0)
    + (IF backupBaseName \o ShmSuffix \in DOMAIN dir
       THEN dir[backupBaseName \o ShmSuffix].size ELSE 0)

\* lines 561-563: the .db file, and each side file that exists under the
\* backup's name
BackupFiles(dir, backupBaseName) ==
    <<backupBaseName \o DbSuffix>>
    \o (IF backupBaseName \o WalSuffix \in DOMAIN dir
        THEN <<backupBaseName \o WalSuffix>> ELSE <<>>)
    \o (IF backupBaseName \o ShmSuffix \in DOMAIN dir
        THEN <<backupBaseName \o ShmSuffix>> ELSE <<>>)

\* lines 527-550: the directory when call flt has thrown (d0 before the
\* first copy, d1, d2, d3 after the copy of the .db, -wal and -shm file)
\* a failure that removes what the request has copied
CopiedNothing(flt, d0, d1, d2, d3) == IF flt = "none" THEN d3 ELSE d0

\* copies that do not wait for the close to succeed
CopiedDespiteClose(flt, d0, d1, d2, d3) ==
    CASE flt = "copydb" -> d0
      [] flt = "copywal" -> d1
      [] flt = "copyshm" -> d2
      [] OTHER -> d3

CopiedBefore(flt, d0, d1, d2, d3) ==
    CASE flt \in {"close", "copydb"} -> d0
      [] flt = "copywal" -> d1
      [] flt = "copyshm" -> d2
      [] OTHER -> d3

\* lines 527-593: db.close() answers; the files are copied and the response
\* is sent.  flt names the call that fails, if any
BackupClose ==
    /\ bk.pc = "close"
    /\ LET backupBaseName == BackupBase(bk.ts)
           backupFile == backupBaseName \o DbSuffix
           backupWalFile == backupBaseName \o WalSuffix
           backupShmFile == backupBaseName \o ShmSuffix
           d1 == CopyFile(files, DbContent(live.main), backupFile, now)
           d2 == IF live.wal.present
                 THEN CopyFile(d1, WalContent(live.wal.img), backupWalFile, now)
                 ELSE d1
           d3 == IF live.shm THEN CopyFile(d2, ShmContent, backupShmFile, now) ELSE d2
           backupFiles == BackupFiles(d3, backupBaseName)
           totalSize == TotalSize(d3, backupBaseName)
       IN \E flt \in {"none", "close", "copydb", "copywal", "copyshm"} :
              /\ flt # "none" => events < MaxEvents
              /\ flt = "copywal" => live.wal.present
              /\ flt = "copyshm" => live.shm
              /\ events' = events + (IF flt = "none" THEN 0 ELSE 1)
              /\ files' = CopiedBefore(flt, files, d1, d2, d3)
              /\ bk' = CASE flt = "close" -> BackupFailure(Fault(bk, flt), ErrSqlite)
                         [] flt \in {"copydb", "copywal", "copyshm"} ->
                              BackupFailure(Fault(bk, flt), ErrIO)
                         [] OTHER ->
                              [bk EXCEPT !.pc = "done",
                                         !.resp = [status |-> 200, success |-> TRUE,
                                                   message |-> MsgBackupDone, error |-> "",
                                                   backup_base |-> backupBaseName,
                                                   backup_files |-> backupFiles,
                                                   total_size |-> totalSize]]
              /\ clean' = IF flt = "none" THEN clean \cup {backupBaseName} ELSE clean
    /\ UNCHANGED <<live, now, rst, cat, nreq, indexes, mig, cfg>>

\* lines 896-994: GET /backups; order is what fs.readdirSync returns
ListBackups ==
    \E order \in Orders(DOMAIN files) :
        /\ cat' = [status |-> 200, success |-> TRUE, allFiles |-> order,
                   backups |-> Catalog(order, files)]
        /\ UNCHANGED <<live, files, now, rst, bk, events, nreq, clean, indexes, mig, cfg>>

----------------------------------------------------------------------------
(***************************************************************************)
(* The environment: the clock, and the other handlers of the application   *)
(* that write to the live store through their own connection.              *)
(***************************************************************************)
Quiet ==
    /\ \A r \in Reqs : rst[r].pc \in {"idle", "done"}
    /\ bk.pc \in {"idle", "done"}

\* only the equality of two timestamps matters: the clock is let advance by
\* one tick between two requests
Tick ==
    /\ now <= nreq
    /\ events < MaxEvents
    /\ now' = now + 1
    /\ UNCHANGED <<live, files, rst, bk, cat, events, nreq, clean, indexes, mig, cfg>>

\* another handler inserts one row into a table of the store
StoreWrite(tableName) ==
    /\ events + 1 < MaxEvents
    /\ tableName \in DOMAIN LiveView
    /\ LET cols == LiveView[tableName].cols
           names == [i \in DOMAIN cols |-> cols[i].name]
           values == [i \in DOMAIN cols |-> "w"]
       IN live' = Write(live, [LiveView EXCEPT ![tableName] =
                                 InsertOrReplace(@, names, values)])
    /\ events' = events + 1
    /\ clean' = {}
    /\ UNCHANGED <<files, now, rst, bk, cat, nreq, indexes, mig, cfg>>

----------------------------------------------------------------------------
(***************************************************************************)
(* The settings file and the three handlers that write it.  A settings     *)
(* object is a function from its keys to their values; a value is a pair  *)
(* of its type, string or boolean, and its text.                           *)
(***************************************************************************)
NoSettings == [k \in {} |-> <<"string", "">>]

\* a request that has not started.  set is the settings the request asks
\* to be saved; readFailed records that reading the old settings threw
IdleSave ==
    [pc |-> "idle", route |-> "", set |-> NoSettings, pending |-> NoSettings,
     status |-> 0, readFailed |-> FALSE]

\* old is the content of the file before the first request
IdleSettings == [file |-> NoSettings, old |-> NoSettings, sv |-> [r \in Reqs |-> IdleSave]]

----------------------------------------------------------------------------
(***************************************************************************)
(* The migration script (src/unnamed/part_000), run from the command line  *)
(* on the live store.                                                      *)
(***************************************************************************)
NoIndexes == [n \in {} |-> ""]
NoSchema == [tables |-> [t \in {} |-> <<>>], indexes |-> {}]
NoCall == [kind |-> "none", table |-> "", name |-> "", existed |-> FALSE,
           resolved |-> "none", before |-> NoSchema]

\* the script has not been run.  The fields from last on record the history
\* of the runs and are read by no action: the last call of
\* addColumnIfNotExists or createIndexIfNotExists with the schema it found
\* and what it resolved, whether a statement of this run or of the run
\* before it failed for a reason that is not in the database, and the
\* schema the run before this one left
IdleMigration ==
    [pc |-> "idle", run |-> 0, strict |-> FALSE, t |-> 0, c |-> 0, x |-> 0,
     columnsAdded |-> 0, indexesCreated |-> 0,
     totalColumnsAdded |-> 0, totalIndexesCreated |-> 0,
     last |-> NoCall, failed |-> FALSE, prevFailed |-> FALSE, prev |-> NoSchema]

----------------------------------------------------------------------------
(***************************************************************************)
(* Initial states.  The live store and the one backup set already in the   *)
(* directory (taken by an earlier version of the application, so that its  *)
(* schema may differ) are put together from table variants: under scenario *)
(* k the i-th table of the allow-list is in case Case(i, k).               *)
(***************************************************************************)
Col(n, u, d) == [name |-> n, unique |-> u, dflt |-> d]

Case(i, k) == ((i + k) % 9) + 1

\* the two scenarios put every case on some table
Scenarios == {0, 4}

LiveCols == <<Col("id", TRUE, NULL), Col("name", FALSE, NULL), Col("price", FALSE, "0")>>
LiveTable ==
    [cols |-> LiveCols, rows |-> <<[id |-> "9", name |-> "z", price |-> "5"]>>]

\* case 8: the live store has no such table
LiveHas(c) == c # 8

\* case 6: the backup has no such table
BackupHas(c) == c # 6

BackupTable(c) ==
    CASE c = 2 ->   \* a column the live table does not have
            [cols |-> LiveCols \o <<Col("old_col", FALSE, NULL)>>,
             rows |-> <<[id |-> "1", name |-> "a", price |-> "5", old_col |-> "o"]>>]
      [] c = 3 ->   \* names that differ in case, a live column missing, a NULL
            [cols |-> <<Col("ID", TRUE, NULL), Col("Name", FALSE, NULL)>>,
             rows |-> <<[ID |-> "1", Name |-> "a"], [ID |-> "2", Name |-> NULL]>>]
      [] c = 4 ->   \* no column in common
            [cols |-> <<Col("old_col", FALSE, NULL), Col("x", FALSE, NULL)>>,
             rows |-> <<[old_col |-> "o", x |-> "1"]>>]
      [] c = 5 ->   \* no column in common, no row
            [cols |-> <<Col("old_col", FALSE, NULL)>>, rows |-> <<>>]
      [] c = 7 ->   \* no unique key in the backup: two rows of the same id
            [cols |-> <<Col("id", FALSE, NULL), Col("name", FALSE, NULL)>>,
             rows |-> <<[id |-> "1", name |-> "a"], [id |-> "1", name |-> "b"]>>]
      [] c = 9 ->   \* the same schema, no row
            [cols |-> LiveCols, rows |-> <<>>]
      [] OTHER ->   \* cases 1 and 8: the same schema
            [cols |-> LiveCols,
             rows |-> <<[id |-> "1", name |-> "a", price |-> "5"],
                        [id |-> "2", name |-> "b", price |-> "7"]>>]

TableIndex(t) == CHOOSE i \in DOMAIN tablesToRestore : tablesToRestore[i] = t

LiveImage(k) ==
    [t \in {x \in TableSet : LiveHas(Case(TableIndex(x), k))} |-> LiveTable]
BackupImage(k) ==
    [t \in {x \in TableSet : BackupHas(Case(TableIndex(x), k))} |->
        BackupTable(Case(TableIndex(t), k))]

\* an image with the same tables and columns and no row: the main file of
\* a database whose rows are all still in the write-ahead log
Emptied(img) == [t \in DOMAIN img |-> [img[t] EXCEPT !.rows = <<>>]]

OldBackup == <<"billing_backup_", "0">>

File(content, t) == [content |-> content, size |-> SizeOf(content), birth |-> t]

\* the old backup set: one .db file, or a .db file with its -wal and -shm
InitFiles(k, withWal) ==
    IF withWal
    THEN [n \in {OldBackup \o DbSuffix, OldBackup \o WalSuffix, OldBackup \o ShmSuffix} |->
            IF n = OldBackup \o DbSuffix THEN File(DbContent(Emptied(BackupImage(k))), 0)
            ELSE IF n = OldBackup \o WalSuffix THEN File(WalContent(BackupImage(k)), 0)
            ELSE File(ShmContent, 0)]
    ELSE [n \in {OldBackup \o DbSuffix} |-> File(DbContent(BackupImage(k)), 0)]

NoCatalog == [status |-> 0, success |-> FALSE, allFiles |-> <<>>, backups |-> <<>>]

\* the old backup set was taken from this store: it has its side files when
\* the store is in WAL mode
Init ==
    \E k \in Scenarios, walMode \in BOOLEAN :
        /\ live = [main |-> LiveImage(k),
                   wal |-> IF walMode THEN [present |-> TRUE, img |-> LiveImage(k)]
                           ELSE NoWal,
                   shm |-> walMode]
        /\ files = InitFiles(k, walMode)
        /\ now = 1
        /\ rst = [r \in Reqs |-> IdleRestore]
        /\ bk = IdleBackup
        /\ cat = NoCatalog
        /\ events = 0
        /\ nreq = 0
        /\ clean = {}
        /\ indexes = NoIndexes
        /\ mig = IdleMigration
        /\ cfg = IdleSettings

\* requests arrive one at a time, and the other handlers write to the store
\* between requests only
Next ==
    \/ Quiet /\ Tick
    \/ Quiet /\ StoreWrite("packages")
    \/ Quiet /\ BackupStart
    \/ BackupCheckpoint
    \/ BackupClose
    \/ \E f \in RequestFiles : Quiet /\ RestoreStart(1, f)
    \/ RestoreCheckpoint(1)
    \/ RestoreClose(1)
    \/ RestoreExists(1)
    \/ RestoreDelete(1)
    \/ RestoreSelect(1)
    \/ RestoreBackupColumns(1)
    \/ RestoreActiveColumns(1)
    \/ RestoreInsert(1)

Spec == Init /\ [][Next]_vars

(***************************************************************************)
(* Two restore requests in flight at once: each request is started once,   *)
(* the steps of the two interleave at their awaits, and the clock advances *)
(* at any moment.  The store is that of the first scenario, in             *)
(* rollback-journal mode; the directory holds the old backup set of that   *)
(* scenario with its side files, and a second backup set, of one file,     *)
(* that holds the tables of the other scenario.  The two requests are the  *)
(* only events: no call raises an error.                                   *)
(***************************************************************************)
OtherBackup == <<"billing_backup_", "8">>

TwoBackups ==
    [n \in DOMAIN InitFiles(0, TRUE) \cup {OtherBackup \o DbSuffix} |->
        IF n = OtherBackup \o DbSuffix THEN File(DbContent(BackupImage(4)), 0)
        ELSE InitFiles(0, TRUE)[n]]

InitConcurrent ==
    /\ live = [main |-> LiveImage(0), wal |-> NoWal, shm |-> FALSE]
    /\ files = TwoBackups
    /\ now = 1
    /\ rst = [r \in Reqs |-> IdleRestore]
    /\ bk = IdleBackup
    /\ cat = NoCatalog
    /\ events = MaxEvents - 2
    /\ nreq = 0
    /\ clean = {}
    /\ indexes = NoIndexes
    /\ mig = IdleMigration
    /\ cfg = IdleSettings

NextConcurrent ==
    \/ Tick
    \/ \E r \in Reqs : \E f \in RequestFiles :
          rst[r].pc = "idle" /\ RestoreStart(r, f)
    \/ \E r \in Reqs : RestoreCheckpoint(r)
    \/ \E r \in Reqs : RestoreClose(r)
    \/ \E r \in Reqs : RestoreExists(r)
    \/ \E r \in Reqs : RestoreDelete(r)
    \/ \E r \in Reqs : RestoreSelect(r)
    \/ \E r \in Reqs : RestoreBackupColumns(r)
    \/ \E r \in Reqs : RestoreActiveColumns(r)
    \/ \E r \in Reqs : RestoreInsert(r)

SpecConcurrent == InitConcurrent /\ [][NextConcurrent]_vars

(***************************************************************************)
(* The catalog over any directory of at most MaxFiles files.               *)
(***************************************************************************)
CatalogNames ==
    {<<"X">> \o DbSuffix, <<"X">> \o WalSuffix, <<"X">> \o ShmSuffix,
     <<"Y">> \o DbSuffix, <<"Y">> \o WalSuffix, <<"X">> \o TxtSuffix,
     DbSuffix, <<"X">> \o DbSuffix \o DbSuffix}
CatalogStats == {[size |-> 1, birth |-> 2], [size |-> 3, birth |-> 1]}

InitCatalog ==
    /\ \E D \in SUBSET CatalogNames :
          /\ Cardinality(D) <= MaxFiles
          /\ \E st \in [D -> CatalogStats] :
                files = [n \in D |-> [content |-> DbContent(EmptyImage),
                                      size |-> st[n].size, birth |-> st[n].birth]]
    /\ live = [main |-> EmptyImage, wal |-> NoWal, shm |-> FALSE]
    /\ now = 1
    /\ rst = [r \in Reqs |-> IdleRestore]
    /\ bk = IdleBackup
    /\ cat = NoCatalog
    /\ events = 0
    /\ nreq = 0
    /\ clean = {}
    /\ indexes = NoIndexes
    /\ mig = IdleMigration
    /\ cfg = IdleSettings

\* one request on each directory
NextCatalog == cat.status = 0 /\ ListBackups

SpecCatalog == InitCatalog /\ [][NextCatalog]_vars

----------------------------------------------------------------------------
(***************************************************************************)
(* runComprehensiveDatabaseMigration.  One action per awaited database     *)
(* call.  A statement fails for a reason that is in the database (a table  *)
(* or a column that is not there, a column that may not be added) or, at   *)
(* most once, for a reason that is not (the database is locked).           *)
(***************************************************************************)
MaxTables == 2
MaxRuns == 2

Column(n, d) == [name |-> n, definition |-> d]
Index(n, cs) == [name |-> n, columns |-> cs]

DefPrimaryKey == "INTEGER PRIMARY KEY AUTOINCREMENT"
DefTimestamp == "DATETIME DEFAULT CURRENT_TIMESTAMP"

\* Object.entries(tableUpdates), in the order of the literal
tableUpdates ==
    << [table |-> "trouble_reports",
        columns |-> << Column("id", DefPrimaryKey),
                       Column("phone", "TEXT"),
                       Column("name", "TEXT"),
                       Column("location", "TEXT"),
                       Column("category", "TEXT"),
                       Column("description", "TEXT"),
                       Column("status", "TEXT DEFAULT 'pending'"),
                       Column("assigned_to", "INTEGER"),
                       Column("resolution", "TEXT"),
                       Column("created_at", DefTimestamp),
                       Column("updated_at", DefTimestamp) >>,
        indexes |-> << Index("idx_trouble_reports_status", <<"status">>),
                       Index("idx_trouble_reports_category", <<"category">>),
                       Index("idx_trouble_reports_assigned_to", <<"assigned_to">>),
                       Index("idx_trouble_reports_created_at", <<"created_at">>) >>],
       [table |-> "packages",
        columns |-> << Column("status", "TEXT DEFAULT 'active'"),
                       Column("updated_at", DefTimestamp) >>,
        indexes |-> << Index("idx_packages_status", <<"status">>),
                       Index("idx_packages_updated_at", <<"updated_at">>) >>],
       [table |-> "voucher_pricing",
        columns |-> << Column("package_id", "INTEGER"),
                       Column("duration_hours", "INTEGER DEFAULT 24"),
                       Column("price", "DECIMAL(10,2)"),
                       Column("commission", "DECIMAL(10,2)") >>,
        indexes |-> << Index("idx_voucher_pricing_package_id", <<"package_id">>),
                       Index("idx_voucher_pricing_duration", <<"duration_hours">>) >>],
       [table |-> "customers",
        columns |-> << Column("created_at", DefTimestamp),
                       Column("updated_at", DefTimestamp) >>,
        indexes |-> << Index("idx_customers_created_at", <<"created_at">>),
                       Index("idx_customers_updated_at", <<"updated_at">>) >>],
       [table |-> "voucher_settings",
        columns |-> << Column("id", DefPrimaryKey),
                       Column("name", "TEXT"),
                       Column("header_text", "TEXT"),
                       Column("footer_text", "TEXT"),
                       Column("validity_days", "INTEGER DEFAULT 30"),
                       Column("created_at", DefTimestamp),
                       Column("updated_at", DefTimestamp) >>,
        indexes |-> << Index("idx_voucher_settings_name", <<"name">>),
                       Index("idx_voucher_settings_created_at", <<"created_at">>) >>],
       [table |-> "payments",
        columns |-> << Column("created_at", DefTimestamp) >>,
        indexes |-> << Index("idx_payments_created_at", <<"created_at">>) >>] >>

\* the tables the model processes: the first MaxTables of the literal
Updates == SubSeq(tableUpdates, 1,
                  IF MaxTables < Len(tableUpdates) THEN MaxTables ELSE Len(tableUpdates))

\* the DEFAULT clause of a column definition
DefaultOf(definition) ==
    CASE definition = "TEXT DEFAULT 'pending'" -> "pending"
      [] definition = "TEXT DEFAULT 'active'" -> "active"
      [] definition = "INTEGER DEFAULT 24" -> "24"
      [] definition = "INTEGER DEFAULT 30" -> "30"
      [] definition = DefTimestamp -> "CURRENT_TIMESTAMP"
      [] OTHER -> NULL

\* the schema of the store: the columns of each table, and the indexes
Schema ==
    [tables |-> [t \in DOMAIN LiveView |-> LiveView[t].cols], indexes |-> indexes]

\* columnExists: the rows of PRAGMA table_info, none for a table that is
\* not there; the column names are compared as they are written
columnExists(view, tableName, columnName) ==
    /\ tableName \in DOMAIN view
    /\ \E i \in DOMAIN view[tableName].cols : view[tableName].cols[i].name = columnName

\* what ALTER TABLE <table> ADD COLUMN <name> <definition> answers: SQLite
\* compares column names without regard to case, adds no PRIMARY KEY
\* column, and adds a column whose default is not a constant to no table
\* that holds a row (to no table at all, in the builds marked strict)
AlterTable(view, tableName, columnName, definition, strict) ==
    IF tableName \notin DOMAIN view THEN "no such table"
    ELSE IF \E i \in DOMAIN view[tableName].cols :
               ToLower(view[tableName].cols[i].name) = ToLower(columnName)
         THEN "duplicate column name"
    ELSE IF definition = DefPrimaryKey THEN "Cannot add a PRIMARY KEY column"
    ELSE IF definition = DefTimestamp /\ (strict \/ view[tableName].rows # <<>>)
         THEN "Cannot add a column with non-constant default"
    ELSE "ok"

\* the table after the column is added: every row takes the default
AddColumn(view, tableName, columnName, definition) ==
    [view EXCEPT ![tableName] =
        [cols |-> Append(@.cols, Col(columnName, FALSE, DefaultOf(definition))),
         rows |-> [i \in DOMAIN @.rows |->
                     [n \in DOMAIN @.rows[i] \cup {columnName} |->
                         IF n = columnName THEN DefaultOf(definition)
                         ELSE @.rows[i][n]]]]]

\* what CREATE INDEX <name> ON <table>(<columns>) answers
CreateIndex(view, idx, indexName, tableName, columns) ==
    IF tableName \notin DOMAIN view THEN "no such table"
    ELSE IF indexName \in DOMAIN idx THEN "index already exists"
    ELSE IF \E k \in DOMAIN columns :
               \A i \in DOMAIN view[tableName].cols :
                   ToLower(view[tableName].cols[i].name) # ToLower(columns[k])
         THEN "no such column"
    ELSE "ok"

AddIndex(idx, indexName, tableName) ==
    [n \in DOMAIN idx \cup {indexName} |-> IF n = indexName THEN tableName ELSE idx[n]]

\* the UPDATE statements issued after the loop: each column that is NULL
\* takes the value of its COALESCE; a statement that names a table or a
\* column that is not there fails and changes nothing
updates ==
    << [table |-> "trouble_reports",
        set |-> << <<"status", "pending">>, <<"created_at", "CURRENT_TIMESTAMP">>,
                   <<"updated_at", "CURRENT_TIMESTAMP">> >>],
       [table |-> "packages",
        set |-> << <<"status", "active">>, <<"updated_at", "CURRENT_TIMESTAMP">> >>],
       [table |-> "customers",
        set |-> << <<"created_at", "CURRENT_TIMESTAMP">>,
                   <<"updated_at", "CURRENT_TIMESTAMP">> >>],
       [table |-> "voucher_settings",
        set |-> << <<"validity_days", "30">>, <<"created_at", "CURRENT_TIMESTAMP">>,
                   <<"updated_at", "CURRENT_TIMESTAMP">> >>],
       [table |-> "payments",
        set |-> << <<"created_at", "CURRENT_TIMESTAMP">> >>] >>

Update(view, u) ==
    IF u.table \notin DOMAIN view THEN view
    ELSE LET names == ColumnNames(view[u.table].cols)
             Named(k) == CHOOSE n \in names : ToLower(n) = ToLower(u.set[k][1])
             Sets(n) == {k \in DOMAIN u.set : Named(k) = n}
         IN IF \E k \in DOMAIN u.set : \A n \in names : ToLower(n) # ToLower(u.set[k][1])
            THEN view
            ELSE [view EXCEPT ![u.table].rows =
                    [i \in DOMAIN @ |->
                        [n \in DOMAIN @[i] |->
                            IF @[i][n] = NULL /\ Sets(n) # {}
                            THEN u.set[CHOOSE k \in Sets(n) : TRUE][2]
                            ELSE @[i][n]]]]

RECURSIVE UpdateAll(_, _)
UpdateAll(view, us) ==
    IF us = <<>> THEN view ELSE UpdateAll(Update(view, Head(us)), Tail(us))

\* the script is run: the counters start at zero
MigrationStart ==
    /\ mig.pc \in {"idle", "done"}
    /\ mig.run < MaxRuns
    /\ mig' = [IdleMigration EXCEPT !.pc = "columnExists", !.run = mig.run + 1,
                                    !.strict = mig.strict, !.t = 1, !.c = 1,
                                    !.prev = Schema, !.prevFailed = mig.failed]
    /\ UNCHANGED <<live, files, now, rst, bk, cat, events, nreq, clean, indexes, cfg>>

\* a call has resolved or rejected: its outcome is recorded
Resolved(m, kind, existed, resolved) ==
    [m EXCEPT !.last = [kind |-> kind, table |-> Updates[m.t].table,
                        name |-> IF kind = "column" THEN Updates[m.t].columns[m.c].name
                                 ELSE Updates[m.t].indexes[m.x].name,
                        existed |-> existed, resolved |-> resolved, before |-> Schema],
              !.failed = @ \/ resolved = "locked"]

\* addColumnIfNotExists has resolved added, or has rejected and the error
\* is logged; the next column, or the first index
\* a loop that counts every column it has processed
NextColumnCountsAll(m, added) ==
    LET n == m.columnsAdded + 1
    IN IF m.c < Len(Updates[m.t].columns)
       THEN [m EXCEPT !.pc = "columnExists", !.c = @ + 1, !.columnsAdded = n]
       ELSE [m EXCEPT !.pc = "indexExists", !.x = 1, !.columnsAdded = n,
                      !.totalColumnsAdded = @ + n]

NextColumn(m, added) ==
    LET n == m.columnsAdded + (IF added THEN 1 ELSE 0)
    IN IF m.c < Len(Updates[m.t].columns)
       THEN [m EXCEPT !.pc = "columnExists", !.c = @ + 1, !.columnsAdded = n]
       ELSE [m EXCEPT !.pc = "indexExists", !.x = 1, !.columnsAdded = n,
                      !.totalColumnsAdded = @ + n]

\* createIndexIfNotExists has resolved created, or has rejected and the
\* error is logged; the next index, the next table, or the end of the loop
NextIndex(m, created) ==
    LET n == m.indexesCreated + (IF created THEN 1 ELSE 0)
    IN IF m.x < Len(Updates[m.t].indexes)
       THEN [m EXCEPT !.pc = "indexExists", !.x = @ + 1, !.indexesCreated = n]
       ELSE IF m.t < Len(Updates)
            THEN [m EXCEPT !.pc = "columnExists", !.t = @ + 1, !.c = 1, !.x = 0,
                           !.columnsAdded = 0, !.indexesCreated = 0,
                           !.totalIndexesCreated = @ + n]
            ELSE [m EXCEPT !.pc = "done", !.indexesCreated = n,
                           !.totalIndexesCreated = @ + n]

\* PRAGMA table_info answers; the ALTER TABLE is issued when the column is
\* not among the rows
ColumnExists ==
    /\ mig.pc = "columnExists"
    /\ LET tableName == Updates[mig.t].table
           column == Updates[mig.t].columns[mig.c]
       IN \/ /\ events < MaxEvents
             /\ events' = events + 1
             /\ mig' = NextColumn(Resolved(mig, "column", FALSE, "locked"), FALSE)
          \/ /\ columnExists(LiveView, tableName, column.name)
             /\ events' = events
             /\ mig' = NextColumn(Resolved(mig, "column", TRUE, "false"), FALSE)
          \/ /\ ~columnExists(LiveView, tableName, column.name)
             /\ events' = events
             /\ mig' = [mig EXCEPT !.pc = "alter"]
    /\ UNCHANGED <<live, files, now, rst, bk, cat, nreq, clean, indexes, cfg>>

\* the ALTER TABLE answers
Alter ==
    /\ mig.pc = "alter"
    /\ LET tableName == Updates[mig.t].table
           column == Updates[mig.t].columns[mig.c]
           err == AlterTable(LiveView, tableName, column.name, column.definition,
                             mig.strict)
       IN \/ /\ events < MaxEvents
             /\ events' = events + 1
             /\ live' = live
             /\ mig' = NextColumn(Resolved(mig, "column", FALSE, "locked"), FALSE)
          \/ /\ err = "duplicate column name"
             /\ events' = events
             /\ live' = live
             /\ mig' = NextColumn(Resolved(mig, "column", FALSE, "false"), FALSE)
          \/ /\ err \notin {"ok", "duplicate column name"}
             /\ events' = events
             /\ live' = live
             /\ mig' = NextColumn(Resolved(mig, "column", FALSE, "rejected"), FALSE)
          \/ /\ err = "ok"
             /\ events' = events
             /\ live' = Write(live, AddColumn(LiveView, tableName, column.name,
                                              column.definition))
             /\ mig' = NextColumn(Resolved(mig, "column", FALSE, "true"), TRUE)
    /\ UNCHANGED <<files, now, rst, bk, cat, nreq, clean, indexes, cfg>>

\* the database after the statements that follow the loop
AfterLoop(m, db) ==
    IF m.pc = "done" THEN Write(db, UpdateAll(View(db.main, db.wal), updates)) ELSE db

\* the query on sqlite_master answers; the CREATE INDEX is issued when it
\* returns no row
IndexExists ==
    /\ mig.pc = "indexExists"
    /\ LET index == Updates[mig.t].indexes[mig.x]
       IN \/ /\ events < MaxEvents
             /\ events' = events + 1
             /\ mig' = NextIndex(Resolved(mig, "index", FALSE, "locked"), FALSE)
          \/ /\ index.name \in DOMAIN indexes
             /\ events' = events
             /\ mig' = NextIndex(Resolved(mig, "index", TRUE, "false"), FALSE)
          \/ /\ index.name \notin DOMAIN indexes
             /\ events' = events
             /\ mig' = [mig EXCEPT !.pc = "createIndex"]
    /\ live' = AfterLoop(mig', live)
    /\ UNCHANGED <<files, now, rst, bk, cat, nreq, clean, indexes, cfg>>

\* the CREATE INDEX answers
CreateIndexAnswer ==
    /\ mig.pc = "createIndex"
    /\ LET tableName == Updates[mig.t].table
           index == Updates[mig.t].indexes[mig.x]
           err == CreateIndex(LiveView, indexes, index.name, tableName, index.columns)
       IN \/ /\ events < MaxEvents
             /\ events' = events + 1
             /\ indexes' = indexes
             /\ mig' = NextIndex(Resolved(mig, "index", FALSE, "locked"), FALSE)
          \/ /\ err # "ok"
             /\ events' = events
             /\ indexes' = indexes
             /\ mig' = NextIndex(Resolved(mig, "index", FALSE, "rejected"), FALSE)
          \/ /\ err = "ok"
             /\ events' = events
             /\ indexes' = AddIndex(indexes, index.name, tableName)
             /\ mig' = NextIndex(Resolved(mig, "index", FALSE, "true"), TRUE)
    /\ live' = AfterLoop(mig', live)
    /\ UNCHANGED <<files, now, rst, bk, cat, nreq, clean, cfg>>

\* the tables of the store the script is run on: a table is absent, has the
\* columns of an early version of the application, or has in addition a
\* column the script adds, written in lower case or with a capital
MigrationTable(pre, hasRow) ==
    LET cols == IF pre = "none" THEN <<Col("name", FALSE, NULL)>>
                ELSE <<Col("name", FALSE, NULL), Col(pre, FALSE, NULL)>>
    IN [cols |-> cols,
        rows |-> IF hasRow
                 THEN <<[n \in ColumnNames(cols) |-> IF n = "name" THEN "a" ELSE NULL]>>
                 ELSE <<>>]

InitMigration ==
    /\ \E present \in SUBSET {Updates[i].table : i \in DOMAIN Updates}, pre \in {"none", "status", "Status"},
          hasRow \in BOOLEAN, strict \in BOOLEAN :
          /\ live = [main |-> [t \in present |-> MigrationTable(pre, hasRow)],
                     wal |-> NoWal, shm |-> FALSE]
          /\ mig = [IdleMigration EXCEPT !.strict = strict]
          /\ cfg = IdleSettings
    /\ files = [n \in {} |-> File(ShmContent, 0)]
    /\ now = 1
    /\ rst = [r \in Reqs |-> IdleRestore]
    /\ bk = IdleBackup
    /\ cat = NoCatalog
    /\ events = MaxEvents - 1
    /\ nreq = 0
    /\ clean = {}
    /\ indexes = NoIndexes

NextMigration ==
    \/ MigrationStart
    \/ ColumnExists
    \/ Alter
    \/ IndexExists
    \/ CreateIndexAnswer

SpecMigration == InitMigration /\ [][NextMigration]_vars

----------------------------------------------------------------------------
(***************************************************************************)
(* Restores followed by one request for the catalog.  The store is in      *)
(* rollback-journal mode and the directory holds the old backup set, of    *)
(* one file or with its side files; a restore may name that set or a       *)
(* pre-restore snapshot that an earlier restore wrote.  The catalog is     *)
(* requested of a directory of at most MaxFiles files.                     *)
(***************************************************************************)
InitListing ==
    /\ live = [main |-> LiveImage(0), wal |-> NoWal, shm |-> FALSE]
    /\ \E withWal \in BOOLEAN : files = InitFiles(0, withWal)
    /\ now = 1
    /\ rst = [r \in Reqs |-> IdleRestore]
    /\ bk = IdleBackup
    /\ cat = NoCatalog
    /\ events = 0
    /\ nreq = 0
    /\ clean = {}
    /\ indexes = NoIndexes
    /\ mig = IdleMigration
    /\ cfg = IdleSettings

NextListing ==
    \/ cat.status = 0 /\ Quiet /\ Tick
    \/ \E f \in {OldBackup \o DbSuffix}
                  \cup {n \in DOMAIN files : Head(n) = "pre_restore_"} :
          cat.status = 0 /\ Quiet /\ RestoreStart(1, f)
    \/ RestoreCheckpoint(1)
    \/ RestoreClose(1)
    \/ RestoreExists(1)
    \/ RestoreDelete(1)
    \/ RestoreSelect(1)
    \/ RestoreBackupColumns(1)
    \/ RestoreActiveColumns(1)
    \/ RestoreInsert(1)
    \/ cat.status = 0 /\ Quiet /\ Cardinality(DOMAIN files) <= MaxFiles /\ ListBackups

SpecListing == InitListing /\ [][NextListing]_vars

----------------------------------------------------------------------------
(***************************************************************************)
(* Two requests that save settings, each to one of /save, /save-intervals  *)
(* and /upload-logo.  A handler runs from its first line to its response   *)
(* without interruption, except /save, which hands its write to            *)
(* fs.writeFile and responds in the callback.  At most one call throws.    *)
(***************************************************************************)
\* { ...a, ...b }
Merge(a, b) == [k \in DOMAIN a \cup DOMAIN b |-> IF k \in DOMAIN b THEN b[k] ELSE a[k]]

\* lines 123-142: keys that are empty are dropped, the strings 'true' and
\* 'false' become booleans
Sanitize(s) ==
    [k \in DOMAIN s \ {""} |->
        IF s[k] = <<"string", "true">> THEN <<"boolean", "true">>
        ELSE IF s[k] = <<"string", "false">> THEN <<"boolean", "false">>
        ELSE s[k]]

\* lines 108-111: the settings /save falls back to when the read throws
SaveDefaults ==
    [k \in {"user_auth_mode", "logo_filename"} |->
        IF k = "user_auth_mode" THEN <<"string", "mikrotik">>
        ELSE <<"string", "logo.png">>]

\* getSettingsWithCache(): the settings the file holds
getSettingsWithCache == cfg.file

\* parseInt on the strings of the model; -1 stands for NaN
ParseInt(x) ==
    CASE x = "0" -> 0
      [] x = "1" -> 1
      [] x = "2" -> 2
      [] OTHER -> -1

requiredFields ==
    <<"rx_power_warning_interval_hours", "rxpower_recap_interval_hours",
      "offline_notification_interval_hours">>

\* lines 205-234: every required field is there, and is a number of hours
\* from 1 to 168
IntervalsValid(body) ==
    \A i \in DOMAIN requiredFields :
        /\ requiredFields[i] \in DOMAIN body
        /\ body[requiredFields[i]][2] # ""
        /\ ParseInt(body[requiredFields[i]][2]) # -1
        /\ ParseInt(body[requiredFields[i]][2]) >= 1
        /\ ParseInt(body[requiredFields[i]][2]) <= 168

\* lines 238-245: the three intervals in milliseconds are added to the body
IntervalData(body) ==
    LET Ms(h) == <<"string", ToString(ParseInt(h[2]) * 60 * 60 * 1000)>>
    IN Merge(body,
             [k \in {"rx_power_warning_interval", "rxpower_recap_interval",
                     "offline_notification_interval"} |->
                 CASE k = "rx_power_warning_interval" ->
                          Ms(body["rx_power_warning_interval_hours"])
                   [] k = "rxpower_recap_interval" ->
                          Ms(body["rxpower_recap_interval_hours"])
                   [] OTHER -> Ms(body["offline_notification_interval_hours"])])

\* the answer of a request that wrote nothing
Answer(r, route, code) ==
    [cfg EXCEPT !.sv[r] = [IdleSave EXCEPT !.pc = "done", !.route = route,
                                           !.status = code]]

\* a request body that is no object
NoBody == [k \in {"nobody"} |-> <<"string", "">>]

\* lines 89-145: POST /save up to the call of fs.writeFile, which takes the
\* text to write and returns at once
Save(r, body) ==
    /\ cfg.sv[r].pc = "idle"
    /\ IF body = NoBody
       THEN /\ cfg' = Answer(r, "save", 400)
            /\ events' = events
       ELSE \E throws \in BOOLEAN :
               /\ throws => events < MaxEvents
               /\ events' = events + (IF throws THEN 1 ELSE 0)
               /\ LET oldSettings == IF throws THEN SaveDefaults ELSE getSettingsWithCache
                      merged == Merge(oldSettings, body)
                      mergedSettings ==
                          IF "user_auth_mode" \in DOMAIN merged THEN merged
                          ELSE Merge(merged, [k \in {"user_auth_mode"} |->
                                                 <<"string", "mikrotik">>])
                  IN cfg' = [cfg EXCEPT !.sv[r] =
                               [IdleSave EXCEPT !.pc = "writeFile", !.route = "save",
                                                !.set = Sanitize(body),
                                                !.pending = Sanitize(mergedSettings),
                                                !.readFailed = throws]]
    /\ UNCHANGED <<live, files, now, rst, bk, cat, nreq, clean, indexes, mig>>

\* lines 145-178: the write is done and the callback responds
SaveWritten(r) ==
    /\ cfg.sv[r].pc = "writeFile"
    /\ \/ /\ events < MaxEvents
          /\ events' = events + 1
          /\ cfg' = [cfg EXCEPT !.sv[r].pc = "done", !.sv[r].status = 500]
       \/ /\ events' = events
          /\ cfg' = [cfg EXCEPT !.file = cfg.sv[r].pending,
                                !.sv[r].pc = "done", !.sv[r].status = 200]
    /\ UNCHANGED <<live, files, now, rst, bk, cat, nreq, clean, indexes, mig>>

\* lines 192-297: POST /save-intervals, whose write is fs.writeFileSync
SaveIntervals(r, body) ==
    /\ cfg.sv[r].pc = "idle"
    /\ IF body = NoBody \/ ~IntervalsValid(body)
       THEN /\ cfg' = Answer(r, "save-intervals", 400)
            /\ events' = events
       ELSE \E flt \in {"none", "read", "write"} :
               /\ flt # "none" => events < MaxEvents
               /\ events' = events + (IF flt = "none" THEN 0 ELSE 1)
               /\ LET oldSettings == IF flt = "read" THEN NoSettings
                                     ELSE getSettingsWithCache
                      mergedSettings == Merge(oldSettings, IntervalData(body))
                  IN cfg' = [cfg EXCEPT
                               !.file = IF flt = "write" THEN @ ELSE mergedSettings,
                               !.sv[r] = [IdleSave EXCEPT
                                             !.pc = "done", !.route = "save-intervals",
                                             !.set = IntervalData(body),
                                             !.status = IF flt = "write" THEN 500 ELSE 200,
                                             !.readFailed = flt = "read"]]
    /\ UNCHANGED <<live, files, now, rst, bk, cat, nreq, clean, indexes, mig>>

\* lines 319-393: POST /upload-logo, once the upload is stored; the empty
\* filename stands for a request without a file
UploadLogo(r, filename) ==
    /\ cfg.sv[r].pc = "idle"
    /\ IF filename = ""
       THEN /\ cfg' = Answer(r, "upload-logo", 400)
            /\ events' = events
       ELSE \E flt \in {"none", "read", "write"} :
               /\ flt # "none" => events < MaxEvents
               /\ events' = events + (IF flt = "none" THEN 0 ELSE 1)
               /\ LET logo == [k \in {"logo_filename"} |-> <<"string", filename>>]
                      settings == Merge(getSettingsWithCache, logo)
                  IN cfg' = [cfg EXCEPT
                               !.file = IF flt = "none" THEN settings ELSE @,
                               !.sv[r] = [IdleSave EXCEPT
                                             !.pc = "done", !.route = "upload-logo",
                                             !.set = logo,
                                             !.status = IF flt = "none" THEN 200 ELSE 500,
                                             !.readFailed = flt = "read"]]
    /\ UNCHANGED <<live, files, now, rst, bk, cat, nreq, clean, indexes, mig>>

\* the file holds the default settings, or those and one more key
InitSettings ==
    /\ \E old \in {SaveDefaults,
                   Merge(SaveDefaults, [k \in {"company_header"} |-> <<"string", "old">>])} :
          cfg = [IdleSettings EXCEPT !.file = old, !.old = old]
    /\ live = [main |-> EmptyImage, wal |-> NoWal, shm |-> FALSE]
    /\ files = [n \in {} |-> File(ShmContent, 0)]
    /\ now = 1
    /\ rst = [r \in Reqs |-> IdleRestore]
    /\ bk = IdleBackup
    /\ cat = NoCatalog
    /\ events = MaxEvents - 1
    /\ nreq = 0
    /\ clean = {}
    /\ indexes = NoIndexes
    /\ mig = IdleMigration

\* each request is made once, with one of the bodies of the model
NextSettings ==
    LET Hours(a, b, c) ==
            [k \in {requiredFields[i] : i \in DOMAIN requiredFields} |->
                CASE k = requiredFields[1] -> <<"string", a>>
                  [] k = requiredFields[2] -> <<"string", b>>
                  [] OTHER -> <<"string", c>>]
        SaveBodies ==
            {NoBody,
             [k \in {"company_header"} |-> <<"string", "ISP">>],
             [k \in {"server_port", "auto_suspension"} |->
                 IF k = "server_port" THEN <<"string", "3003">>
                 ELSE <<"string", "true">>]}
        IntervalBodies ==
            {NoBody, Hours("1", "2", "1"), Hours("1", "0", "1"),
             [k \in {requiredFields[1]} |-> <<"string", "1">>]}
    IN \/ \E r \in Reqs : \E body \in SaveBodies : Save(r, body)
       \/ \E r \in Reqs : SaveWritten(r)
       \/ \E r \in Reqs : \E body \in IntervalBodies : SaveIntervals(r, body)
       \/ \E r \in Reqs : \E filename \in {"", "logo.svg"} : UploadLogo(r, filename)

SpecSettings == InitSettings /\ [][NextSettings]_vars

----------------------------------------------------------------------------
(***************************************************************************)
(* The claims.  BeforeView is what the store held when a restore request   *)
(* began; NowView is what it holds while the request runs and what it held *)
(* when the request was answered.                                          *)
(***************************************************************************)
BeforeView(s) == View(s.before.main, s.before.wal)
NowView(s) == IF s.pc = "done" THEN View(s.after.main, s.after.wal) ELSE LiveView

RowsOf(img, t) == IF t \in DOMAIN img THEN img[t].rows ELSE <<>>
RowSet(img, t) == {RowsOf(img, t)[i] : i \in DOMAIN RowsOf(img, t)}
TableOf(img, t) == IF t \in DOMAIN img THEN <<img[t]>> ELSE <<>>

\* the table loop of the request ran to its end
LoopEnded(s) == s.pc = "done" /\ s.resp.status = 200

\* the names of the backup columns that match a live column, case ignored
Intersection(backupCols, liveCols) ==
    {b \in ColumnNames(backupCols) :
        \E a \in ColumnNames(liveCols) : ToLower(a) = ToLower(b)}

\* the backup row b projected onto the live table's columns
Projection(liveCols, backupCols, b) ==
    [n \in ColumnNames(liveCols) |->
        IF \E bc \in ColumnNames(backupCols) : ToLower(bc) = ToLower(n)
        THEN LET bc == CHOOSE x \in ColumnNames(backupCols) : ToLower(x) = ToLower(n)
             IN IF bc \in DOMAIN b THEN b[bc] ELSE NULL
        ELSE liveCols[CHOOSE i \in DOMAIN liveCols : liveCols[i].name = n].dflt]

\* C1: a restore of a backup set taken since the last write to the store
\* leaves in every allow-listed table exactly the rows it held before.
C1_RoundTrip ==
    \A r \in Reqs :
        (rst[r].pc = "done" /\ rst[r].roundtrip) =>
            \A t \in TableSet :
                RowSet(NowView(rst[r]), t) = RowSet(BeforeView(rst[r]), t)

\* C2: once a restore has issued a DELETE or an INSERT, the file
\* pre_restore_<timestamp>.db holds the main file of the store as it was
\* when the request began; a restore whose snapshot copy failed has issued
\* no statement, has answered with a failure and has left the store alone.
C2_SnapshotBeforeWrites ==
    \A r \in Reqs :
        LET s == rst[r]
        IN /\ s.issued > 0 =>
                /\ s.snapshot = "written"
                /\ PreRestoreName(s.ts) \in DOMAIN files
                /\ files[PreRestoreName(s.ts)].content = DbContent(s.before.main)
           /\ s.snapshot = "failed" =>
                /\ s.issued = 0
                /\ s.pc = "done"
                /\ ~s.resp.success
                /\ s.after = s.before

C2_Witness ==
    /\ rst[1].pc = "done"
    /\ rst[1].issued > 1
    /\ PreRestoreName(rst[1].ts) \in DOMAIN files
    /\ BeforeView(rst[1]) # NowView(rst[1])

\* C3: a restore of a file name that is not in the backup directory is
\* answered with success = false and the file-not-found message, and the
\* store is as it was.
C3_MissingFileRejected ==
    \A r \in Reqs :
        LET s == rst[r]
        IN (s.pc = "done" /\ ~s.existed) =>
              /\ s.resp.status = 400
              /\ ~s.resp.success
              /\ s.resp.message = MsgFileNotFound
              /\ s.after = s.before
              /\ s.issued = 0

C3_Witness ==
    /\ rst[1].pc = "done"
    /\ rst[1].file = MissingFile
    /\ ~rst[1].existed
    /\ rst[1].resp.status = 400

\* C4: a table that the sqlite_master query finds absent from the backup is
\* left as it was in the store, no other statement runs for it, its result
\* is the failure "table not found in backup", and the loop has gone on.
C4_AbsentTableUntouched ==
    \A r \in Reqs : \A t \in TableSet :
        LET s == rst[r]
        IN ("exists" \in s.ran[t] /\ t \notin DOMAIN s.source) =>
              /\ TableOf(NowView(s), t) = TableOf(BeforeView(s), t)
              /\ s.ran[t] = {"exists"}
              /\ s.restoreResults[t] = [recorded |-> TRUE, success |-> FALSE,
                                        count |-> NoCount, message |-> MsgTableNotFound]
              /\ (s.pc = "done" \/ s.idx > TableIndex(t))

C4_Witness ==
    \E t \in TableSet :
        /\ LoopEnded(rst[1])
        /\ "exists" \in rst[1].ran[t]
        /\ t \notin DOMAIN rst[1].source
        /\ RowsOf(BeforeView(rst[1]), t) # <<>>
        /\ \E u \in TableSet : TableIndex(u) > TableIndex(t) /\ rst[1].ran[u] # {}

\* a table of the backup and of the store with no column name in common
NoCompatibleColumns(s, t) ==
    /\ t \in DOMAIN s.source
    /\ t \in DOMAIN BeforeView(s)
    /\ Intersection(s.source[t].cols, BeforeView(s)[t].cols) = {}

\* none of the table's statements raised an error
ErrorFree(s, t) ==
    /\ s.restoreResults[t].recorded
    /\ s.restoreResults[t].message \notin {ErrSqlite, ErrNoTable}

\* C5 as claimed: after a restore every table with no compatible column is
\* empty and its result is the failure "no compatible columns", whatever
\* the number of rows of the backup's table.
C5_NoCompatibleAlwaysFails ==
    \A r \in Reqs : \A t \in TableSet :
        LET s == rst[r]
        IN (LoopEnded(s) /\ NoCompatibleColumns(s, t)) =>
              /\ RowsOf(NowView(s), t) = <<>>
              /\ s.restoreResults[t] = [recorded |-> TRUE, success |-> FALSE,
                                        count |-> 0, message |-> MsgNoCompat]

\* C5 as amended: a table with no compatible column, none of whose
\* statements raised an error, is empty after the restore; its result is
\* the failure "no compatible columns" when the backup's table holds a row,
\* and the success "no data to restore" with count 0 when it holds none.
C5_NoCompatibleColumns ==
    \A r \in Reqs : \A t \in TableSet :
        LET s == rst[r]
        IN (NoCompatibleColumns(s, t) /\ ErrorFree(s, t)) =>
              /\ RowsOf(NowView(s), t) = <<>>
              /\ s.restoreResults[t] =
                    IF Len(s.source[t].rows) > 0
                    THEN [recorded |-> TRUE, success |-> FALSE, count |-> 0,
                          message |-> MsgNoCompat]
                    ELSE [recorded |-> TRUE, success |-> TRUE, count |-> 0,
                          message |-> MsgNoData]

C5_Witness ==
    \E t, u \in TableSet :
        /\ LoopEnded(rst[1])
        /\ NoCompatibleColumns(rst[1], t) /\ ErrorFree(rst[1], t)
        /\ NoCompatibleColumns(rst[1], u) /\ ErrorFree(rst[1], u)
        /\ Len(rst[1].source[t].rows) > 0
        /\ Len(rst[1].source[u].rows) = 0
        /\ RowsOf(BeforeView(rst[1]), t) # <<>>
        /\ RowsOf(BeforeView(rst[1]), u) # <<>>

\* a table of the backup and of the store with a column name in common
CompatibleColumns(s, t) ==
    /\ t \in DOMAIN s.source
    /\ t \in DOMAIN BeforeView(s)
    /\ Intersection(s.source[t].cols, BeforeView(s)[t].cols) # {}

\* two rows of the backup's table whose projections carry the same value,
\* not NULL, in a unique column of the live table
Collides(s, t) ==
    LET liveCols == BeforeView(s)[t].cols
        rows == s.source[t].rows
        P(i) == Projection(liveCols, s.source[t].cols, rows[i])
    IN \E i, j \in DOMAIN rows : \E c \in DOMAIN liveCols :
          /\ i < j
          /\ liveCols[c].unique
          /\ P(i)[liveCols[c].name] # NULL
          /\ P(i)[liveCols[c].name] = P(j)[liveCols[c].name]

\* C6 as claimed: after a restore every table with a compatible column
\* holds as many rows as the backup's table less the rows whose insert
\* failed, key collisions included.
C6_RowCountAlways ==
    \A r \in Reqs : \A t \in TableSet :
        LET s == rst[r]
        IN (LoopEnded(s) /\ CompatibleColumns(s, t)) =>
              Len(RowsOf(NowView(s), t)) = Len(s.source[t].rows) - s.skipped[t]

\* C6 as amended: for a table with a compatible column whose rows were
\* copied (no table-level error), the count of the result is the number of
\* rows of the backup's table less the rows whose insert failed; the live
\* table holds at most that many rows, and exactly that many when no two
\* backup rows collide on a unique column of the live table.
C6_RowCount ==
    \A r \in Reqs : \A t \in TableSet :
        LET s == rst[r]
            res == s.restoreResults[t]
        IN (CompatibleColumns(s, t) /\ res.recorded /\ res.message = MsgRestored) =>
              /\ res.success
              /\ res.count = Len(s.source[t].rows) - s.skipped[t]
              /\ Len(RowsOf(NowView(s), t)) <= res.count
              /\ ~Collides(s, t) => Len(RowsOf(NowView(s), t)) = res.count

C6_Witness ==
    \E t, u \in TableSet :
        /\ LoopEnded(rst[1])
        /\ CompatibleColumns(rst[1], t) /\ rst[1].restoreResults[t].message = MsgRestored
        /\ CompatibleColumns(rst[1], u) /\ rst[1].restoreResults[u].message = MsgRestored
        /\ Collides(rst[1], t)
        /\ Len(RowsOf(NowView(rst[1]), t)) < rst[1].restoreResults[t].count
        /\ ~Collides(rst[1], u)
        /\ rst[1].skipped[u] = 1
        /\ Len(RowsOf(NowView(rst[1]), u)) = 1

\* C7: a restore never changes the schema of the store: from its start on,
\* whatever its outcome, the store has the tables it had, each with the
\* columns it had, and every row has exactly the columns of its table.
C7_SchemaUnchanged ==
    \A r \in Reqs :
        LET s == rst[r]
        IN s.pc # "idle" =>
              /\ DOMAIN NowView(s) = DOMAIN BeforeView(s)
              /\ \A t \in DOMAIN NowView(s) \cap DOMAIN BeforeView(s) :
                    /\ NowView(s)[t].cols = BeforeView(s)[t].cols
                    /\ \A row \in RowSet(NowView(s), t) :
                          DOMAIN row = ColumnNames(BeforeView(s)[t].cols)

C7_Witness ==
    \E t \in TableSet :
        /\ LoopEnded(rst[1])
        /\ CompatibleColumns(rst[1], t)
        /\ "old_col" \in ColumnNames(rst[1].source[t].cols)
        /\ rst[1].restoreResults[t].count = 1
        /\ Len(RowsOf(NowView(rst[1]), t)) = 1

\* C8: every row of a table whose rows were copied is the projection of a
\* row of the backup's table: a column whose name matches a backup column,
\* case ignored, carries the backup's value, any other column its default.
C8_RowsAreProjections ==
    \A r \in Reqs : \A t \in TableSet :
        LET s == rst[r]
            res == s.restoreResults[t]
        IN (res.recorded /\ res.message = MsgRestored) =>
              \A row \in RowSet(NowView(s), t) :
                  \E i \in DOMAIN s.source[t].rows :
                      row = Projection(BeforeView(s)[t].cols, s.source[t].cols,
                                       s.source[t].rows[i])

C8_Witness ==
    \E t, u \in TableSet :
        /\ LoopEnded(rst[1])
        /\ rst[1].restoreResults[t].message = MsgRestored
        /\ "old_col" \in ColumnNames(rst[1].source[t].cols)
        /\ RowsOf(NowView(rst[1]), t) = <<[id |-> "1", name |-> "a", price |-> "5"]>>
        /\ rst[1].restoreResults[u].message = MsgRestored
        /\ "ID" \in ColumnNames(rst[1].source[u].cols)
        /\ RowsOf(NowView(rst[1]), u) = <<[id |-> "1", name |-> "a", price |-> "0"],
                                          [id |-> "2", name |-> NULL, price |-> "0"]>>

\* the files of the directory that carry one of the three suffixes, and
\* the name of such a file without its suffix
Suffixes == {DbSuffix, WalSuffix, ShmSuffix}
IsBackupFile(f) == \E suf \in Suffixes : EndsWith(f, suf)
Stem(f) ==
    LET suf == CHOOSE x \in Suffixes : EndsWith(f, x)
    IN SubSeq(f, 1, Len(f) - Len(suf))
Listed(i) == cat.backups[i]
SameStem(b) == {f \in DOMAIN files : IsBackupFile(f) /\ Stem(f) = b}

\* C9 as claimed: the catalog has exactly one entry per distinct base name
\* among the files that end in .db, .db-wal or .db-shm, with file_count the
\* number of such files of that base name; other files give no entry and
\* are counted in none.
C9_OneEntryPerBaseName ==
    cat.status = 200 =>
        /\ {Listed(i).base_name : i \in DOMAIN cat.backups} =
              {Stem(f) : f \in {g \in DOMAIN files : IsBackupFile(g)}}
        /\ \A i, j \in DOMAIN cat.backups :
              Listed(i).base_name = Listed(j).base_name => i = j
        /\ \A i \in DOMAIN cat.backups :
              /\ Listed(i).file_count = Cardinality(SameStem(Listed(i).base_name))
              /\ {Listed(i).files[k].filename : k \in DOMAIN Listed(i).files} =
                    SameStem(Listed(i).base_name)

\* C9 as amended: the catalog has exactly one entry per distinct base name
\* that is not empty among the files that end in .db, .db-wal or .db-shm,
\* with file_count the number of such files of that base name; a file whose
\* whole name is one of the suffixes, and a file with none of the suffixes,
\* gives no entry and is counted in none.
C9_OneEntryPerNonEmptyBaseName ==
    cat.status = 200 =>
        /\ {Listed(i).base_name : i \in DOMAIN cat.backups} =
              {Stem(f) : f \in {g \in DOMAIN files : IsBackupFile(g)}} \ {<<>>}
        /\ \A i, j \in DOMAIN cat.backups :
              Listed(i).base_name = Listed(j).base_name => i = j
        /\ \A i \in DOMAIN cat.backups :
              /\ Listed(i).file_count = Cardinality(SameStem(Listed(i).base_name))
              /\ {Listed(i).files[k].filename : k \in DOMAIN Listed(i).files} =
                    SameStem(Listed(i).base_name)

C9_Witness ==
    /\ cat.status = 200
    /\ DOMAIN files = {<<"X">> \o DbSuffix, <<"X">> \o WalSuffix,
                       <<"X">> \o ShmSuffix, <<"Y">> \o DbSuffix}
    /\ Len(cat.backups) = 2
    /\ \E i, j \in DOMAIN cat.backups :
          /\ Listed(i).base_name = <<"X">> /\ Listed(i).file_count = 3
          /\ Listed(j).base_name = <<"Y">> /\ Listed(j).file_count = 1

\* the creation time of a backup set: the earliest birth time of its files
GroupBirth(b) ==
    CHOOSE t \in {files[f].birth : f \in SameStem(b)} :
        \A f \in SameStem(b) : t <= files[f].birth

\* C10: the catalog lists its entries newest first: of two adjacent
\* entries the earlier one has a creation time greater than or equal to
\* that of the later one, the creation time of an entry being that of its
\* backup set in the directory.
C10_NewestFirst ==
    cat.status = 200 =>
        /\ \A i \in DOMAIN cat.backups :
              Listed(i).created = GroupBirth(Listed(i).base_name)
        /\ \A i \in DOMAIN cat.backups :
              i + 1 \in DOMAIN cat.backups =>
                  Listed(i).created >= Listed(i + 1).created

C10_Witness ==
    /\ cat.status = 200
    /\ Len(cat.backups) = 2
    /\ Listed(1).created > Listed(2).created
    /\ BaseName(cat.allFiles[1]) = Listed(2).base_name

\* a file of a backup set: billing_backup_<timestamp> with one of the
\* three suffixes
IsBackupSetFile(f) == Len(f) > 0 /\ Head(f) = "billing_backup_" /\ IsBackupFile(f)

\* C11: a backup set is never mutated once created: no step of a restore
\* and no step of a later backup removes a file of a backup set of the
\* directory or changes what it holds.
C11_BackupSetImmutable ==
    [][\A f \in DOMAIN files :
          IsBackupSetFile(f) => (f \in DOMAIN files' /\ files'[f] = files[f])]_vars

\* the scratch files of a restore request, and whether the request has
\* created the first of them
ScratchFiles(s) == {TempDbPath(s), TempWalPath(s), TempShmPath(s)}
ScratchCreated(s) == s.snapshot = "written" /\ "copydb" \notin s.faults

\* C12: when a restore that created its scratch files has sent its
\* response, on the success path and on every failure path, none of the
\* scratch files is left in the backup directory, unless a delete call
\* failed.
C12_ScratchDeleted ==
    \A r \in Reqs :
        LET s == rst[r]
        IN (s.pc = "done" /\ ScratchCreated(s) /\ "unlink" \notin s.faults) =>
              ScratchFiles(s) \cap DOMAIN files = {}

\* a request that has started and has not been answered
InProgress(s) == s.pc \notin {"idle", "done"}

\* C13: two restore requests in progress at the same time never use the
\* same scratch file, two requests that start within the same clock tick
\* included.
C13_ScratchUnique ==
    \A r1, r2 \in Reqs :
        (r1 # r2 /\ InProgress(rst[r1]) /\ InProgress(rst[r2])) =>
            ScratchFiles(rst[r1]) \cap ScratchFiles(rst[r2]) = {}

\* the result of table t says that its rows were copied
RowsCopied(s, t) ==
    s.restoreResults[t].recorded /\ s.restoreResults[t].message = MsgRestored

\* C14 as claimed: the outcome of every table whose rows were copied
\* records a success flag, a message, the number of rows restored and the
\* number of rows skipped because their insert failed.
C14_OutcomeRecordsSkipped ==
    \A r \in Reqs : \A t \in TableSet :
        LET s == rst[r]
            res == s.restoreResults[t]
        IN RowsCopied(s, t) =>
              /\ {"success", "count", "message", "rowsSkipped"} \subseteq DOMAIN res
              /\ res.count = Len(s.source[t].rows) - s.skipped[t]
              /\ res.rowsSkipped = s.skipped[t]

\* C14 as amended: the outcome of every table whose rows were copied is a
\* success flag (true), a message and the number of rows restored, which is
\* the number of rows of the backup's table less the rows whose insert
\* failed; it has no other field: the number of rows skipped is not in it.
C14_OutcomeFields ==
    \A r \in Reqs : \A t \in TableSet :
        LET s == rst[r]
            res == s.restoreResults[t]
        IN RowsCopied(s, t) =>
              /\ DOMAIN res = {"recorded", "success", "count", "message"}
              /\ res.success
              /\ res.count + s.skipped[t] = Len(s.source[t].rows)

C14_Witness ==
    \E t \in TableSet :
        /\ LoopEnded(rst[1])
        /\ RowsCopied(rst[1], t)
        /\ rst[1].skipped[t] = 1
        /\ rst[1].restoreResults[t].count = 1
        /\ rst[1].resp.total_restored >= 1

\* the calls of the table loop, of the scratch-database setup, and all
\* the calls that come before the loop
TableCalls == {"exists", "delete", "select", "backupColumns", "activeColumns"}
ScratchCalls == {"copydb", "copywal", "copyshm", "close"}
SetupCalls == {"snapshot"} \cup ScratchCalls

\* table t has the error of one of its statements as its result
TableFailed(s, t) ==
    s.restoreResults[t].recorded /\ s.restoreResults[t].message \in {ErrSqlite, ErrNoTable}

\* every error raised in the loop is the failed result of its table, and
\* the loop goes on to every later table
TableErrorsRecorded(s) ==
    /\ \A t \in TableSet :
          TableFailed(s, t) =>
              /\ ~s.restoreResults[t].success
              /\ s.pc # "done" => s.idx > TableIndex(t)
              /\ s.pc = "done" =>
                    /\ s.resp.status = 200
                    /\ \A u \in TableSet : s.restoreResults[u].recorded
    /\ s.faults \cap TableCalls # {} => \E t \in TableSet : TableFailed(s, t)

\* C15 as claimed: an error raised while restoring one table is recorded
\* as that table's failed result and every later table is still processed;
\* only an error in the scratch-database setup (the copies to scratch, the
\* checkpoint or close of the scratch copy) ends the restore with a
\* top-level failure.
C15_OnlyScratchSetupFatal ==
    \A r \in Reqs :
        LET s == rst[r]
        IN /\ TableErrorsRecorded(s)
           /\ (s.pc = "done" /\ s.resp.status = 500) =>
                 s.faults \cap (ScratchCalls \cup {"checkpoint"}) # {}

\* C15 as amended: an error raised while restoring one table is recorded
\* as that table's failed result and every later table is still processed;
\* the restore ends with a top-level failure exactly when an error is
\* raised before the loop: by the copy of the pre-restore snapshot, by a
\* copy to scratch or by the close of the scratch copy; then no statement
\* of the loop has run.
C15_ErrorScope ==
    \A r \in Reqs :
        LET s == rst[r]
        IN /\ TableErrorsRecorded(s)
           /\ (s.pc = "done" /\ s.existed) =>
                 (s.resp.status = 500 <=> s.faults \cap SetupCalls # {})
           /\ (s.pc = "done" /\ s.resp.status = 500) =>
                 \A t \in TableSet : ~s.restoreResults[t].recorded /\ s.ran[t] = {}

C15_Witness ==
    \E t, u \in TableSet :
        /\ LoopEnded(rst[1])
        /\ rst[1].faults = {"select"}
        /\ TableFailed(rst[1], t)
        /\ TableIndex(u) > TableIndex(t)
        /\ RowsCopied(rst[1], u)
        /\ RowsOf(NowView(rst[1]), u) # RowsOf(BeforeView(rst[1]), u)

\* C16: a failing WAL checkpoint is never fatal.  A backup whose
\* checkpoint failed goes on to close its connection, and when nothing else
\* fails it copies the files and reports success; a restore whose
\* checkpoint of the scratch copy failed goes on to the close of the
\* scratch copy, and when the close does not fail it runs the table loop to
\* its end and reports success.
C16_CheckpointNotFatal ==
    /\ "checkpoint" \in bk.faults =>
          /\ bk.pc \in {"close", "done"}
          /\ bk.pc = "done" =>
                /\ bk.resp.success <=> bk.faults = {"checkpoint"}
                /\ bk.resp.success =>
                      /\ bk.resp.status = 200
                      /\ bk.resp.backup_files # <<>>
                      /\ \A i \in DOMAIN bk.resp.backup_files :
                            bk.resp.backup_files[i] \in DOMAIN files
    /\ \A r \in Reqs :
          LET s == rst[r]
          IN "checkpoint" \in s.faults =>
                /\ s.pc # "checkpoint"
                /\ s.pc = "done" =>
                      /\ s.resp.status = 200 <=> "close" \notin s.faults
                      /\ s.resp.status = 200 =>
                            \A t \in TableSet : s.restoreResults[t].recorded

C16_Witness ==
    /\ bk.pc = "done" /\ bk.resp.success
    /\ LoopEnded(rst[1])
    /\ rst[1].faults = {"checkpoint"}
    /\ \E t \in TableSet :
          RowsCopied(rst[1], t) /\ RowsOf(NowView(rst[1]), t) # RowsOf(BeforeView(rst[1]), t)

\* the files of the directory under the base name of the backup request
SetOf(base) == {f \in DOMAIN files : IsBackupFile(f) /\ Stem(f) = base}
Listed17 == {bk.resp.backup_files[i] : i \in DOMAIN bk.resp.backup_files}

RECURSIVE SumSizes(_)
SumSizes(fs) ==
    IF fs = {} THEN 0
    ELSE LET f == CHOOSE x \in fs : TRUE
         IN files[f].size + SumSizes(fs \ {f})

\* C17: a successful backup leaves a backup set of one to three files under
\* its base name: the .db file always, the .db-wal file exactly when the
\* store has a -wal file, the .db-shm file exactly when it has a -shm file;
\* the response lists exactly these files, each once, and total_size is the
\* sum of their sizes.
C17_BackupSetFiles ==
    (bk.pc = "done" /\ bk.resp.success) =>
        LET base == bk.resp.backup_base
        IN /\ base = BackupBase(bk.ts)
           /\ SetOf(base) = {base \o DbSuffix}
                            \cup (IF live.wal.present THEN {base \o WalSuffix} ELSE {})
                            \cup (IF live.shm THEN {base \o ShmSuffix} ELSE {})
           /\ Listed17 = SetOf(base)
           /\ Len(bk.resp.backup_files) = Cardinality(SetOf(base))
           /\ Len(bk.resp.backup_files) \in 1..3
           /\ bk.resp.total_size = SumSizes(SetOf(base))

C17_Witness ==
    /\ bk.pc = "done" /\ bk.resp.success
    /\ live.wal.present /\ live.shm
    /\ Len(bk.resp.backup_files) = 3
    /\ bk.resp.total_size > files[bk.resp.backup_base \o DbSuffix].size + 1

CopyCalls == {"copydb", "copywal", "copyshm"}

\* C18: a backup one of whose copies failed ends with the failure response
\* that carries the I/O error and with no success response; the files it
\* had copied before the failure are still in the backup directory.
C18_CopyFailure ==
    (bk.pc = "done" /\ bk.faults \cap CopyCalls # {}) =>
        LET base == BackupBase(bk.ts)
        IN /\ bk.resp.status = 500
           /\ ~bk.resp.success
           /\ bk.resp.message = MsgBackupError
           /\ bk.resp.error = ErrIO
           /\ bk.resp.backup_files = <<>>
           /\ bk.faults \cap {"copywal", "copyshm"} # {} =>
                 /\ base \o DbSuffix \in DOMAIN files
                 /\ files[base \o DbSuffix].content = DbContent(live.main)
           /\ "copyshm" \in bk.faults =>
                 /\ base \o WalSuffix \in DOMAIN files
                 /\ files[base \o WalSuffix].content.kind = "wal"

C18_Witness ==
    /\ bk.pc = "done"
    /\ bk.faults = {"copyshm"}
    /\ bk.resp.status = 500
    /\ BackupBase(bk.ts) \o DbSuffix \in DOMAIN files
    /\ BackupBase(bk.ts) \o WalSuffix \in DOMAIN files
    /\ BackupBase(bk.ts) \o ShmSuffix \notin DOMAIN files

\* a file of a backup set is written by the step
BackupSetWritten ==
    \E f \in DOMAIN files' :
        IsBackupSetFile(f) /\ (f \notin DOMAIN files \/ files'[f] # files[f])

\* C19: within one backup request the steps come in the order checkpoint,
\* close, copy: the close is awaited only once the checkpoint has answered,
\* a file of a backup set is written only by the step in which the close
\* has answered without error, and a close that fails ends the request
\* with a failure and with no file copied.
C19_CheckpointCloseCopy ==
    [][/\ (bk'.pc = "close" /\ bk.pc # "close") => bk.pc = "checkpoint"
       /\ BackupSetWritten =>
             (bk.pc = "close" /\ bk'.pc = "done" /\ "close" \notin bk'.faults)
       /\ (bk.pc = "close" /\ "close" \in bk'.faults) =>
             (files' = files /\ bk'.pc = "done" /\ ~bk'.resp.success)]_vars

C19_Witness ==
    /\ bk.pc = "done"
    /\ bk.faults = {"close"}
    /\ bk.resp.status = 500
    /\ SetOf(BackupBase(bk.ts)) = {}
    /\ live.wal.present

\* the request is in the table loop, waiting for a statement to answer
InLoop(s) ==
    s.pc \in {"exists", "delete", "select", "backupColumns", "activeColumns", "insert"}

\* C20: the tables are processed one after another in the order of the
\* allow-list: while the loop is at a table, the tables before it, and no
\* others, have their result recorded, and no statement has run for a table
\* after it; a table for which a statement has run or whose result is
\* recorded has every earlier table recorded; and an INSERT is issued for a
\* table only after its DELETE has completed.
C20_TableOrder ==
    \A r \in Reqs :
        LET s == rst[r]
        IN /\ InLoop(s) =>
                 /\ s.idx \in DOMAIN tablesToRestore
                 /\ \A u \in TableSet :
                       /\ s.restoreResults[u].recorded <=> TableIndex(u) < s.idx
                       /\ s.ran[u] # {} => TableIndex(u) <= s.idx
           /\ \A t, u \in TableSet :
                 (TableIndex(u) < TableIndex(t)
                    /\ (s.ran[t] # {} \/ s.restoreResults[t].recorded)) =>
                       s.restoreResults[u].recorded
           /\ s.pc = "insert" => "delete" \in s.ran[tablesToRestore[s.idx]]
           /\ \A t \in TableSet :
                 (RowsCopied(s, t) \/ s.skipped[t] > 0) =>
                    {"exists", "delete", "select"} \subseteq s.ran[t]

C20_Witness ==
    /\ rst[1].pc = "insert"
    /\ rst[1].idx = 2
    /\ rst[1].rowIdx = 2
    /\ RowsCopied(rst[1], "packages")
    /\ RowsOf(LiveView, "customers") # <<>>
    /\ RowsOf(LiveView, "odps") = RowsOf(BeforeView(rst[1]), "odps")
    /\ rst[1].ran["odps"] = {}

\* C21: a table that is in the backup with no row: once the SELECT has
\* answered, the DELETE has run before it and the live table is empty, the
\* result of the table is the success "no data to restore" with count 0,
\* and neither PRAGMA table_info call is made for it.
C21_EmptyBackupTable ==
    \A r \in Reqs : \A t \in TableSet :
        LET s == rst[r]
        IN ("select" \in s.ran[t] /\ RowsOf(s.source, t) = <<>>) =>
              /\ s.ran[t] = {"exists", "delete", "select"}
              /\ RowsOf(NowView(s), t) = <<>>
              /\ s.restoreResults[t] = [recorded |-> TRUE, success |-> TRUE,
                                        count |-> 0, message |-> MsgNoData]
              /\ (s.pc = "done" \/ s.idx > TableIndex(t))

C21_Witness ==
    \E t, u \in TableSet :
        /\ LoopEnded(rst[1])
        /\ "select" \in rst[1].ran[t]
        /\ t \in DOMAIN rst[1].source
        /\ rst[1].source[t].rows = <<>>
        /\ RowsOf(BeforeView(rst[1]), t) # <<>>
        /\ RowsOf(NowView(rst[1]), t) = <<>>
        /\ TableIndex(u) > TableIndex(t)
        /\ rst[1].ran[u] # {}

\* C22: a failing insert does not abort the restore of its table.  While
\* the rows of a table are being inserted, every row before the current one
\* has been attempted, inserted or skipped, whatever the number of inserts
\* that failed; once the result of a table with a failed insert is
\* recorded, it is a success whose count is the number of rows of the
\* backup's table less the rows whose insert failed, so that every row
\* after the failing one was attempted.
C22_InsertFailureSkipsRow ==
    \A r \in Reqs : \A t \in TableSet :
        LET s == rst[r]
            res == s.restoreResults[t]
        IN s.skipped[t] > 0 =>
              IF res.recorded
              THEN /\ res.success
                   /\ res.message = MsgRestored
                   /\ res.count = Len(RowsOf(s.source, t)) - s.skipped[t]
                   /\ Len(RowsOf(NowView(s), t)) <= res.count
              ELSE /\ s.pc = "insert"
                   /\ tablesToRestore[s.idx] = t
                   /\ s.backupData = RowsOf(s.source, t)
                   /\ s.rowIdx <= Len(s.backupData)
                   /\ s.skippedCount = s.skipped[t]
                   /\ s.insertedCount + s.skippedCount = s.rowIdx - 1

C22_Witness ==
    \E t \in TableSet :
        /\ LoopEnded(rst[1])
        /\ rst[1].skipped[t] = 1
        /\ Len(rst[1].source[t].rows) = 2
        /\ rst[1].restoreResults[t].success
        /\ rst[1].restoreResults[t].count = 1
        /\ RowsOf(NowView(rst[1]), t) =
              <<Projection(BeforeView(rst[1])[t].cols, rst[1].source[t].cols,
                           rst[1].source[t].rows[2])>>

\* the loop has gone past table t
Past(s, t) == LoopEnded(s) \/ (InLoop(s) /\ s.idx > TableIndex(t))

\* a statement of table t raised an error after the table's DELETE had run:
\* the SELECT of the backup rows, or one of the two PRAGMA table_info calls
ErrorAfterDelete(s, t) ==
    /\ Past(s, t)
    /\ "delete" \in s.ran[t]
    /\ \/ "select" \notin s.ran[t]
       \/ /\ RowsOf(s.source, t) # <<>>
          /\ ~({"backupColumns", "activeColumns"} \subseteq s.ran[t])

\* the insert of every row of the backup's table t failed
AllInsertsFailed(s, t) ==
    /\ Past(s, t)
    /\ s.skipped[t] > 0
    /\ s.skipped[t] = Len(RowsOf(s.source, t))

\* the rows of the backup's table t, each projected onto the live table
Projected(s, t) ==
    [i \in DOMAIN s.source[t].rows |->
        Projection(BeforeView(s)[t].cols, s.source[t].cols, s.source[t].rows[i])]

\* every table restored before t without a skipped row or a key collision
\* holds the rows of the backup
EarlierKept(s, t) ==
    \A u \in TableSet :
        (/\ TableIndex(u) < TableIndex(t)
         /\ RowsCopied(s, u)
         /\ s.skipped[u] = 0
         /\ ~Collides(s, u)) => RowsOf(NowView(s), u) = Projected(s, u)

\* C23 as claimed: when a statement of a table fails after its DELETE, or
\* every insert of the table fails, the deleted rows are not put back (the
\* table is left empty), the table's result records the failure, and the
\* tables restored earlier keep their new content.
C23_NoRollbackFailureRecorded ==
    \A r \in Reqs : \A t \in TableSet :
        LET s == rst[r]
        IN (ErrorAfterDelete(s, t) \/ AllInsertsFailed(s, t)) =>
              /\ RowsOf(NowView(s), t) = <<>>
              /\ s.restoreResults[t].recorded
              /\ ~s.restoreResults[t].success
              /\ EarlierKept(s, t)

\* C23 as amended: when a statement of a table fails after its DELETE, the
\* table is left empty and its result is the failure with the error's
\* message; when every insert of the table fails, the table is left empty
\* too, but its result is a success with count 0; in both cases the tables
\* restored earlier keep their new content.
C23_NoRollback ==
    \A r \in Reqs : \A t \in TableSet :
        LET s == rst[r]
        IN /\ ErrorAfterDelete(s, t) =>
                /\ RowsOf(NowView(s), t) = <<>>
                /\ s.restoreResults[t] = [recorded |-> TRUE, success |-> FALSE,
                                          count |-> NoCount, message |-> ErrSqlite]
                /\ EarlierKept(s, t)
           /\ AllInsertsFailed(s, t) =>
                /\ RowsOf(NowView(s), t) = <<>>
                /\ s.restoreResults[t] = [recorded |-> TRUE, success |-> TRUE,
                                          count |-> 0, message |-> MsgRestored]
                /\ EarlierKept(s, t)

C23_Witness ==
    \E t, u, v \in TableSet :
        /\ LoopEnded(rst[1])
        /\ AllInsertsFailed(rst[1], t)
        /\ RowsOf(BeforeView(rst[1]), t) # <<>>
        /\ ErrorAfterDelete(rst[1], v)
        /\ RowsOf(BeforeView(rst[1]), v) # <<>>
        /\ TableIndex(u) < TableIndex(v)
        /\ RowsCopied(rst[1], u) /\ rst[1].skipped[u] = 0
        /\ RowsOf(NowView(rst[1]), u) = Projected(rst[1], u)
        /\ RowsOf(NowView(rst[1]), u) # RowsOf(BeforeView(rst[1]), u)

\* table t of the backup set the request has chosen
Chosen(s) == FileView(files, s.file)

\* the rows of table t of the chosen backup set, each projected onto the
\* live table
ProjectedSet(s, t) ==
    IF t \in DOMAIN Chosen(s) /\ t \in DOMAIN BeforeView(s)
    THEN {Projection(BeforeView(s)[t].cols, Chosen(s)[t].cols, Chosen(s)[t].rows[i]) :
             i \in DOMAIN Chosen(s)[t].rows}
    ELSE {}

RECURSIVE InsertRows(_, _, _)
InsertRows(table, commonColumns, rows) ==
    IF rows = <<>> THEN table
    ELSE InsertRows(InsertOrReplace(table,
                                    [i \in DOMAIN commonColumns |-> commonColumns[i].name],
                                    RowValues(Head(rows), commonColumns)),
                    commonColumns, Tail(rows))

\* the rows a restore of the chosen backup set, running alone and without
\* error, leaves in table t, which the backup set holds
Alone(s, t) ==
    LET table == [BeforeView(s)[t] EXCEPT !.rows = <<>>]
        commonColumns == CommonColumns(Chosen(s)[t].cols, table.cols)
    IN IF commonColumns = <<>> THEN <<>>
       ELSE InsertRows(table, commonColumns, Chosen(s)[t].rows).rows

\* the requests that delete the rows of table t
Touching(t) == {r \in Reqs : t \in DOMAIN Chosen(rst[r])}

\* C24: two restore requests are not mutually excluded.  When two
\* requests, each with its own scratch files, have both finished without
\* error, every row a table holds is a row it held before or a row of one
\* of the two chosen backups; and it is only by working on a table at the
\* same time that they mix rows: if neither deleted the rows of a table
\* while the other was at work on it, the table holds what one of the two
\* restores alone leaves in it.
C24_NoMutualExclusion ==
    (/\ LoopEnded(rst[1]) /\ LoopEnded(rst[2])
     /\ rst[1].ts # rst[2].ts
     /\ rst[1].faults = {} /\ rst[2].faults = {}) =>
        \A t \in TableSet :
            /\ RowSet(LiveView, t) \subseteq
                  UNION {RowSet(BeforeView(rst[r]), t) \cup ProjectedSet(rst[r], t) :
                            r \in Reqs}
            /\ t \notin rst[1].shared \cup rst[2].shared =>
                  IF Touching(t) = {}
                  THEN \A r \in Reqs : RowsOf(LiveView, t) = RowsOf(BeforeView(rst[r]), t)
                  ELSE \E r \in Touching(t) : RowsOf(LiveView, t) = Alone(rst[r], t)

\* both requests, each with its own scratch files and its own backup, have
\* finished; one of them deleted the rows of a table while the other was
\* between its DELETE and its last INSERT on that table, and the table
\* holds the rows of neither backup
C24_Witness ==
    \E t \in TableSet :
        /\ LoopEnded(rst[1]) /\ LoopEnded(rst[2])
        /\ rst[1].ts # rst[2].ts
        /\ rst[1].file # rst[2].file
        /\ t \in rst[1].shared \cup rst[2].shared
        /\ RowsCopied(rst[1], t) /\ RowsCopied(rst[2], t)
        /\ RowSet(LiveView, t) # ProjectedSet(rst[1], t)
        /\ RowSet(LiveView, t) # ProjectedSet(rst[2], t)
        /\ RowSet(LiveView, t) \cap ProjectedSet(rst[1], t) # {}
        /\ RowSet(LiveView, t) \cap ProjectedSet(rst[2], t) # {}

\* the member of type db of the backup set of base name b, if it has one
DbMembers(b) == {f \in SameStem(b) : EndsWith(f, DbSuffix)}

\* C25: for every entry of the catalog, size is the sum of the sizes of the
\* files of its backup set, created is the earliest of their birth times,
\* and filename is the name of the .db file of the set when there is one
\* and otherwise the name <base_name>.db, which is then the name of no file
\* of the directory.
C25_EntryAggregates ==
    cat.status = 200 =>
        \A i \in DOMAIN cat.backups :
            LET b == Listed(i).base_name
            IN /\ Listed(i).size = SumSizes(SameStem(b))
               /\ \A f \in SameStem(b) : Listed(i).created <= files[f].birth
               /\ \E f \in SameStem(b) : Listed(i).created = files[f].birth
               /\ IF DbMembers(b) # {}
                  THEN Listed(i).filename \in DbMembers(b)
                  ELSE /\ Listed(i).filename = b \o DbSuffix
                       /\ Listed(i).filename \notin DOMAIN files

C25_Witness ==
    /\ cat.status = 200
    /\ DOMAIN files = {<<"X">> \o DbSuffix, <<"X">> \o WalSuffix, <<"Y">> \o WalSuffix}
    /\ files[<<"X">> \o DbSuffix] = [content |-> DbContent(EmptyImage), size |-> 1, birth |-> 2]
    /\ files[<<"X">> \o WalSuffix] = [content |-> DbContent(EmptyImage), size |-> 3, birth |-> 1]
    /\ cat.allFiles[1] = <<"X">> \o WalSuffix
    /\ \E i, j \in DOMAIN cat.backups :
          /\ Listed(i).base_name = <<"X">>
          /\ Listed(i).filename = <<"X">> \o DbSuffix
          /\ Listed(i).size = 4
          /\ Listed(i).created = 1
          /\ Listed(j).base_name = <<"Y">>
          /\ Listed(j).filename = <<"Y">> \o DbSuffix

\* the column or the index of the last call is in the schema sch
InSchema(sch, l) ==
    IF l.kind = "column"
    THEN /\ l.table \in DOMAIN sch.tables
         /\ \E i \in DOMAIN sch.tables[l.table] :
               ToLower(sch.tables[l.table][i].name) = ToLower(l.name)
    ELSE l.name \in DOMAIN sch.indexes

\* the schema sch with the column or the index of the last call taken out
Without(sch, l) ==
    IF l.kind = "column"
    THEN [sch EXCEPT !.tables[l.table] = SelectSeq(@, LAMBDA c : c.name # l.name)]
    ELSE [sch EXCEPT !.indexes = [n \in DOMAIN @ \ {l.name} |-> @[n]]]

RECURSIVE SumSuccessful(_, _)
SumSuccessful(results, i) ==
    IF i = 0 THEN 0
    ELSE (IF results[tablesToRestore[i]].success
          THEN results[tablesToRestore[i]].count ELSE 0)
         + SumSuccessful(results, i - 1)

\* every table of the allow-list has its result
AllRecorded(s) == \A t \in TableSet : s.restoreResults[t].recorded

\* the request was rejected: the file it names is not in the directory
Rejected(s) == s.resp.status = 400 /\ ~s.existed

\* C27 as claimed: when the table loop runs to its end the response reports
\* success with total_restored the sum of the counts of the successful
\* tables; the overall flag is false only when the request is rejected
\* before the loop or the scratch-database setup (the copies to scratch,
\* the checkpoint or close of the scratch copy) fails.
C27_FalseOnlyOnRejectOrScratch ==
    \A r \in Reqs :
        LET s == rst[r]
        IN s.pc = "done" =>
              /\ AllRecorded(s) =>
                    /\ s.resp.success
                    /\ s.resp.total_restored = SumSuccessful(s.restoreResults,
                                                             Len(tablesToRestore))
              /\ ~s.resp.success =>
                    Rejected(s) \/ s.faults \cap (ScratchCalls \cup {"checkpoint"}) # {}

\* C27 as amended: when the table loop runs to its end the response reports
\* success with total_restored the sum of the counts of the successful
\* tables, whatever the per-table results are; the overall flag is false
\* only when the loop never began: the request is rejected, or the copy of
\* the pre-restore snapshot, a copy to scratch or the close of the scratch
\* copy fails.
C27_OverallSuccess ==
    \A r \in Reqs :
        LET s == rst[r]
        IN s.pc = "done" =>
              /\ AllRecorded(s) =>
                    /\ s.resp.success
                    /\ s.resp.status = 200
                    /\ s.resp.total_restored = SumSuccessful(s.restoreResults,
                                                             Len(tablesToRestore))
              /\ ~s.resp.success =>
                    /\ Rejected(s) \/ s.faults \cap SetupCalls # {}
                    /\ \A t \in TableSet : ~s.restoreResults[t].recorded
              /\ s.resp.success => AllRecorded(s)

\* the loop has ended with failed tables and with tables that restored rows
C27_Witness ==
    \E t, u, v \in TableSet :
        /\ rst[1].pc = "done"
        /\ AllRecorded(rst[1])
        /\ ~rst[1].restoreResults[t].success
        /\ rst[1].restoreResults[u].success /\ rst[1].restoreResults[u].count >= 1
        /\ rst[1].restoreResults[v].success /\ rst[1].restoreResults[v].count >= 1
        /\ u # v
        /\ rst[1].resp.success
        /\ rst[1].resp.total_restored
              >= rst[1].restoreResults[u].count + rst[1].restoreResults[v].count

\* C28: the file pre_restore_<timestamp>.db written by a restore holds, for
\* every table of the allow-list, the rows the store held when the restore
\* began, rows committed only to the write-ahead log included.
C28_SnapshotComplete ==
    \A r \in Reqs :
        LET s == rst[r]
        IN (/\ s.snapshot = "written"
            /\ \A q \in Reqs \ {r} : rst[q].ts # s.ts
            /\ PreRestoreName(s.ts) \in DOMAIN files) =>
              \A t \in TableSet :
                  RowsOf(FileView(files, PreRestoreName(s.ts)), t) = RowsOf(BeforeView(s), t)

\* the catalog has an entry of base name b
HasEntry(b) == \E i \in DOMAIN cat.backups : cat.backups[i].base_name = b

\* the catalog has an entry that holds file f of the directory
ListedFile(f) ==
    \E i \in DOMAIN cat.backups :
        /\ cat.backups[i].base_name = BaseName(f)
        /\ \E j \in DOMAIN cat.backups[i].files : cat.backups[i].files[j].filename = f

\* C29: the catalog requested after a restore that wrote its pre-restore
\* snapshot has an entry of base name pre_restore_<timestamp>, named after
\* the snapshot file; it has an entry for every pre-restore snapshot and for
\* every scratch file still in the directory; and a restore that names a
\* pre-restore snapshot of the directory passes the validation of the file.
C29_CatalogListsSnapshots ==
    /\ cat.status = 200 =>
          /\ rst[1].snapshot = "written" =>
                \E i \in DOMAIN cat.backups :
                    /\ cat.backups[i].base_name = <<"pre_restore_">> \o Stamp(rst[1].ts)
                    /\ cat.backups[i].filename = PreRestoreName(rst[1].ts)
          /\ \A f \in DOMAIN files :
                Head(f) \in {"pre_restore_", "temp_restore_"} => ListedFile(f)
    /\ (rst[1].pc # "idle" /\ Head(rst[1].file) = "pre_restore_") =>
          /\ rst[1].existed
          /\ rst[1].resp.status # 400

\* the catalog lists the snapshot of a finished restore whose input was the
\* snapshot of an earlier restore, and a scratch file that was left behind
C29_Witness ==
    /\ cat.status = 200
    /\ LoopEnded(rst[1])
    /\ rst[1].ts = 2
    /\ rst[1].file = PreRestoreName(1)
    /\ HasEntry(<<"pre_restore_">> \o Stamp(2))
    /\ HasEntry(<<"pre_restore_">> \o Stamp(1))
    /\ HasEntry(<<"temp_restore_">> \o Stamp(1))
    /\ HasEntry(OldBackup)

\* the request has answered that the settings are saved, and read the old
\* settings without an error
Saved(r) == cfg.sv[r].pc = "done" /\ cfg.sv[r].status = 200 /\ ~cfg.sv[r].readFailed

\* C30: when two requests that set different keys have both saved their
\* settings, the settings file holds the keys of both requests with the
\* values they set, and every old key neither request set with its old
\* value.
C30_NoLostUpdate ==
    (/\ Saved(1)
     /\ Saved(2)
     /\ DOMAIN cfg.sv[1].set \cap DOMAIN cfg.sv[2].set = {}) =>
        /\ \A r \in Reqs : \A k \in DOMAIN cfg.sv[r].set :
              k \in DOMAIN cfg.file /\ cfg.file[k] = cfg.sv[r].set[k]
        /\ \A k \in DOMAIN cfg.old \ (DOMAIN cfg.sv[1].set \cup DOMAIN cfg.sv[2].set) :
              k \in DOMAIN cfg.file /\ cfg.file[k] = cfg.old[k]

====
